---- MODULE Spec2Model ----
(***************************************************************************)
(* PixTASM: the attribute codec (src/src/color.ts), the TASM generator     *)
(* (src/src/tasm/generator.ts) and the sprite-table generator              *)
(* (src/unnamed/part_004), with the text screen the generated program      *)
(* paints when it is run.                                                  *)
(*                                                                         *)
(* Rows and columns are numbered from 0 as in the source; TLA+ sequences   *)
(* are numbered from 1, so element i of a JavaScript array a is a[i + 1].  *)
(***************************************************************************)
EXTENDS Integers, Sequences, FiniteSets, TLC

VARIABLES
    grid,                       \* gridData, the snapshot handed to the generators
    pc,                         \* where the called generator / the program is
    row, col,                   \* generateTASMCode: the two loop cursors
    stringCounter,              \* generateTASMCode: let stringCounter
    string_data_declarations,   \* generateTASMCode: the string table
    currentMiddleCode,          \* generateTASMCode: the instruction stream
    segments,                   \* history: the segments emitted so far
    finalTASMCode,              \* generateTASMCode: the returned program
    spriteDB,                   \* generateSpriteDB: the returned text
    ip, cursor, screen,         \* the running program: next item, cursor, text screen
    codec,                      \* the codec calls of one edit (encode / decode)
    calls,                      \* two calls of generateTASMCode with their own locals
    templates,                  \* generator.ts: macros, startCode, endCode
    editor,                     \* the editor: grid state and undo / redo history
    share,                      \* the share link: one packed cell, one compressed string
    localStorage                \* the grid state saveGridState persisted last

genVars == <<row, col, stringCounter, string_data_declarations,
             currentMiddleCode, segments, finalTASMCode>>
runVars == <<ip, cursor, screen>>
vars == <<grid, pc, genVars, spriteDB, runVars, codec, calls, templates, editor, share, localStorage>>

----------------------------------------------------------------------------
(* Bounds of the model *)

\* a grid has at most MaxCells cells (rows * cols <= MaxCells)
MaxCells == 3

\* each snapshot of two interleaved calls has at most MaxPairCells cells
MaxPairCells == 2

\* a grid handed to generateSpriteDB alone has at most MaxSpriteCells cells
MaxSpriteCells == 3

----------------------------------------------------------------------------
(* JavaScript values *)

\* null in a number | null field (never a character code or an attribute)
NULL == -1
\* undefined: what optional chaining (nextCell?.charCode) yields on null
UNDEFINED == -2
\* undefined as an array element (a palette read out of range)
NoColor == "undefined"

\* a & b, a | b on non-negative integers
RECURSIVE BitAnd(_, _)
BitAnd(a, b) ==
    IF a = 0 \/ b = 0 THEN 0
    ELSE (a % 2) * (b % 2) + 2 * BitAnd(a \div 2, b \div 2)

RECURSIVE BitOr(_, _)
BitOr(a, b) ==
    IF a = 0 THEN b
    ELSE IF b = 0 THEN a
    ELSE (IF a % 2 = 1 \/ b % 2 = 1 THEN 1 ELSE 0) + 2 * BitOr(a \div 2, b \div 2)

RECURSIVE Pow2(_)
Pow2(n) == IF n = 0 THEN 1 ELSE 2 * Pow2(n - 1)

\* a << n and a >> n; the operands are attribute bytes and palette indices
\* (below 2^8, n = 4), far from the 32-bit wrap of the JavaScript operators
Shl(a, n) == a * Pow2(n)
Shr(a, n) == a \div Pow2(n)

\* a[i] of a JavaScript array: undefined outside 0..length-1
ArrayGet(a, i) == IF i + 1 \in DOMAIN a THEN a[i + 1] ELSE NoColor

\* a.indexOf(x): the first index holding x, or -1
IndexOf(a, x) ==
    IF \E i \in DOMAIN a : a[i] = x
    THEN (CHOOSE i \in DOMAIN a : a[i] = x /\ \A j \in 1..(i - 1) : a[j] # x) - 1
    ELSE -1

\* Math.max(a, b)
MathMax(a, b) == IF a >= b THEN a ELSE b

----------------------------------------------------------------------------
(* src/src/color.ts *)

BLINK_MASK == 128
BACKGROUND_MASK == 112
FOREGROUND_MASK == 15

BACKGROUND_PALETTE ==
    <<"#000", "#00A", "#0A0", "#0AA", "#A00", "#A0A", "#AA0", "#AAA">>

FOREGROUND_PALETTE ==
    <<"#000", "#00A", "#0A0", "#0AA", "#A00", "#A0A", "#AA0", "#AAA",
      "#555", "#55F", "#5F5", "#5FF", "#F55", "#F5A", "#FF5", "#FFF">>

\* the two palette indices decodeCellData computes (its locals bgIndex, fgIndex)
DecodeBgIndex_ShiftedMask(value) == BitAnd(Shr(value, 4), BACKGROUND_MASK)
DecodeBgIndex(value) == Shr(BitAnd(value, BACKGROUND_MASK), 4)

DecodeFgIndex_NoMask(value) == value
DecodeFgIndex(value) == BitAnd(value, FOREGROUND_MASK)

decodeCellData_BlinkFromBackground(value) ==
    [isBlinking |-> BitAnd(value, BACKGROUND_MASK) # 0,
     backgroundColor |-> ArrayGet(BACKGROUND_PALETTE, DecodeBgIndex(value)),
     foregroundColor |-> ArrayGet(FOREGROUND_PALETTE, DecodeFgIndex(value))]
decodeCellData(value) ==
    [isBlinking |-> BitAnd(value, BLINK_MASK) # 0,
     backgroundColor |-> ArrayGet(BACKGROUND_PALETTE, DecodeBgIndex(value)),
     foregroundColor |-> ArrayGet(FOREGROUND_PALETTE, DecodeFgIndex(value))]

encodeCellData_Shift3(args) ==
    LET v1 == IF args.isBlinking THEN BitOr(0, BLINK_MASK) ELSE 0
        v2 == BitOr(v1, BitAnd(Shl(args.bgIndex, 3), BACKGROUND_MASK))
    IN  BitOr(v2, BitAnd(args.fgIndex, FOREGROUND_MASK))
encodeCellData(args) ==
    LET v1 == IF args.isBlinking THEN BitOr(0, BLINK_MASK) ELSE 0
        v2 == BitOr(v1, BitAnd(Shl(args.bgIndex, 4), BACKGROUND_MASK))
    IN  BitOr(v2, BitAnd(args.fgIndex, FOREGROUND_MASK))

\* the encode arguments the editor rebuilds from a decoded attribute
\* (applyDrawing: BACKGROUND_PALETTE.indexOf(decoded.backgroundColor), ...)
IndicesOf(decoded) ==
    [bgIndex |-> IndexOf(BACKGROUND_PALETTE, decoded.backgroundColor),
     fgIndex |-> IndexOf(FOREGROUND_PALETTE, decoded.foregroundColor),
     isBlinking |-> decoded.isBlinking]

----------------------------------------------------------------------------
(* src/types.ts (src/unnamed/part_000): CellContent, and the grid *)

NullCell == [kind |-> "null"]
CellContent(charCode, attribute) ==
    [kind |-> "cell", charCode |-> charCode, attribute |-> attribute]

IsNull(cell) == cell.kind = "null"

\* gridData.length, gridData[r].length, gridData[r][c]
Rows(g) == Len(g)
RowLen(g, r) == Len(g[r + 1])
At(g, r, c) == g[r + 1][c + 1]

----------------------------------------------------------------------------
(* Number formatting: n.toString(radix), s.padStart(len, '0'), and the      *)
(* value the assembler reads back from a numeral (decimal, or hex with the  *)
(* h suffix).  A numeral is its digit values, most significant first.       *)

RECURSIVE Digits(_, _)
Digits(n, radix) ==
    IF n < radix THEN <<n>> ELSE Append(Digits(n \div radix, radix), n % radix)

RECURSIVE PadStart(_, _)
PadStart(ds, len) == IF Len(ds) >= len THEN ds ELSE PadStart(<<0>> \o ds, len)

\* `${n}` and n.toString(10)
Dec(n) == [digits |-> Digits(n, 10), radix |-> 10]
\* the attribute written with toString(10) under the 'h' suffix
Hex2_DecimalDigits(n) == [digits |-> PadStart(Digits(n, 10), 2), radix |-> 16]

\* n.toString(16).padStart(2, '0') + 'h'
Hex2(n) == [digits |-> PadStart(Digits(n, 16), 2), radix |-> 16]

RECURSIVE DigitsValue(_, _)
DigitsValue(ds, radix) ==
    IF ds = <<>> THEN 0
    ELSE DigitsValue(SubSeq(ds, 1, Len(ds) - 1), radix) * radix + ds[Len(ds)]

NumValue(num) == DigitsValue(num.digits, num.radix)

----------------------------------------------------------------------------
(* src/src/tasm/generator.ts: generateTASMCode *)

\* lines 84 and 92: the cell is skipped by the column scan
IsSkipped_AttributeNull(cell) ==
    IF IsNull(cell) THEN TRUE ELSE cell.attribute = NULL
IsSkipped(cell) ==
    IF IsNull(cell) THEN TRUE
    ELSE IF cell.charCode = NULL /\ cell.attribute = NULL THEN TRUE
    ELSE cell.attribute = NULL /\ cell.charCode \in {NULL, UNDEFINED}

\* line 97 with the test narrowed to cells that also store an attribute
StartsText_NeedsAttribute(cell) ==
    cell.charCode # NULL /\ cell.charCode # 36 /\ cell.attribute # NULL

\* line 97: a text segment is attempted at this cell
StartsText(cell) == cell.charCode # NULL /\ cell.charCode # 36

\* the text loop without the attribute comparison of line 108
RECURSIVE TextScan_AnyAttribute(_, _, _, _, _)
TextScan_AnyAttribute(g, r, c, currentAttribute, chars) ==
    IF c < RowLen(g, r)
    THEN LET nextCell == At(g, r, c)
             nextCharCode == IF IsNull(nextCell) THEN UNDEFINED ELSE nextCell.charCode
         IN  IF nextCharCode # NULL /\ nextCharCode # 36
             THEN TextScan_AnyAttribute(g, r, c + 1, currentAttribute,
                      IF nextCharCode # UNDEFINED
                      THEN Append(chars, nextCharCode) ELSE chars)
             ELSE [chars |-> chars, end |-> c]
    ELSE [chars |-> chars, end |-> c]

\* lines 101-114: the text loop from column c; chars collected so far
RECURSIVE TextScan_IncludesDollar(_, _, _, _, _)
TextScan_IncludesDollar(g, r, c, currentAttribute, chars) ==
    IF c < RowLen(g, r)
    THEN LET nextCell == At(g, r, c)
             nextCharCode == IF IsNull(nextCell) THEN UNDEFINED ELSE nextCell.charCode
             nextAttribute ==
                 IF ~IsNull(nextCell) /\ nextCell.attribute # NULL
                 THEN nextCell.attribute ELSE 7
         IN  IF nextCharCode # NULL /\ nextAttribute = currentAttribute
             THEN TextScan_IncludesDollar(g, r, c + 1, currentAttribute,
                      IF nextCharCode # UNDEFINED
                      THEN Append(chars, nextCharCode) ELSE chars)
             ELSE [chars |-> chars, end |-> c]
    ELSE [chars |-> chars, end |-> c]

RECURSIVE TextScan(_, _, _, _, _)
TextScan(g, r, c, currentAttribute, chars) ==
    IF c < RowLen(g, r)
    THEN LET nextCell == At(g, r, c)
             nextCharCode == IF IsNull(nextCell) THEN UNDEFINED ELSE nextCell.charCode
             nextAttribute ==
                 IF ~IsNull(nextCell) /\ nextCell.attribute # NULL
                 THEN nextCell.attribute ELSE 7
         IN  IF /\ nextCharCode # NULL
                /\ nextAttribute = currentAttribute
                /\ nextCharCode # 36
             THEN TextScan(g, r, c + 1, currentAttribute,
                      IF nextCharCode # UNDEFINED
                      THEN Append(chars, nextCharCode) ELSE chars)
             ELSE [chars |-> chars, end |-> c]
    ELSE [chars |-> chars, end |-> c]

\* lines 155-168: the renderc loop from column c; count so far
RECURSIVE BlockScan_AttributeOnly(_, _, _, _, _, _)
BlockScan_AttributeOnly(g, r, c, renderChar, renderAttribute, count) ==
    IF c < RowLen(g, r)
    THEN LET nextCell == At(g, r, c)
             nextRenderAttribute ==
                 IF ~IsNull(nextCell) /\ nextCell.attribute # NULL
                 THEN nextCell.attribute ELSE 7
         IN  IF nextRenderAttribute = renderAttribute
             THEN BlockScan_AttributeOnly(g, r, c + 1, renderChar, renderAttribute,
                                          count + 1)
             ELSE [count |-> count, end |-> c]
    ELSE [count |-> count, end |-> c]

\* the renderc loop comparing the stored char code, not read as a space
\* where it is null
RECURSIVE BlockScan_StoredCharCode(_, _, _, _, _, _)
BlockScan_StoredCharCode(g, r, c, renderChar, renderAttribute, count) ==
    IF c < RowLen(g, r)
    THEN LET nextCell == At(g, r, c)
             nextRenderChar == IF IsNull(nextCell) THEN 32 ELSE nextCell.charCode
             nextRenderAttribute ==
                 IF ~IsNull(nextCell) /\ nextCell.attribute # NULL
                 THEN nextCell.attribute ELSE 7
         IN  IF nextRenderChar = renderChar /\ nextRenderAttribute = renderAttribute
             THEN BlockScan_StoredCharCode(g, r, c + 1, renderChar, renderAttribute,
                                           count + 1)
             ELSE [count |-> count, end |-> c]
    ELSE [count |-> count, end |-> c]

RECURSIVE BlockScan(_, _, _, _, _, _)
BlockScan(g, r, c, renderChar, renderAttribute, count) ==
    IF c < RowLen(g, r)
    THEN LET nextCell == At(g, r, c)
             nextRenderChar ==
                 IF ~IsNull(nextCell) /\ nextCell.charCode # NULL
                 THEN nextCell.charCode ELSE 32
             nextRenderAttribute ==
                 IF ~IsNull(nextCell) /\ nextCell.attribute # NULL
                 THEN nextCell.attribute ELSE 7
         IN  IF nextRenderChar = renderChar /\ nextRenderAttribute = renderAttribute
             THEN BlockScan(g, r, c + 1, renderChar, renderAttribute, count + 1)
             ELSE [count |-> count, end |-> c]
    ELSE [count |-> count, end |-> c]

\* the characters written into the literal as they are, '"' not doubled
StringLiteral_NoEscape(chars) == chars

\* lines 118-126: the quoted literal of a segment's characters ('"' doubled)
RECURSIVE StringLiteral(_)
StringLiteral(chars) ==
    IF chars = <<>> THEN <<>>
    ELSE (IF Head(chars) = 34 THEN <<34, 34>> ELSE <<Head(chars)>>)
         \o StringLiteral(Tail(chars))

\* the label without its counter: txt_0_R<row>_C<col> for every segment
Label_NoCounter(n, r, c) == [txt |-> Dec(0), R |-> Dec(r), C |-> Dec(c)]

\* line 117: txt_<counter>_R<row>_C<col>
Label(n, r, c) == [txt |-> Dec(n), R |-> Dec(r), C |-> Dec(c)]

\* the locals of a call whose label counter lives on from the call before
InitialLocals_CounterKept ==
    [row |-> 0, col |-> 0, stringCounter |-> stringCounter,
     string_data_declarations |-> <<>>, currentMiddleCode |-> <<>>,
     segments |-> <<>>]

\* the locals of one call (lines 75-77, and the loop cursors)
InitialLocals ==
    [row |-> 0, col |-> 0, stringCounter |-> 0,
     string_data_declarations |-> <<>>, currentMiddleCode |-> <<>>,
     segments |-> <<>>]

\* the text segment with colorz emitted whatever the attribute
EmitTextSegment_ColorzAlways(st, currentAttribute, scan) ==
    LET label == Label(st.stringCounter, st.row, st.col)
    IN  [st EXCEPT
            !.stringCounter = st.stringCounter + 1,
            !.string_data_declarations = Append(@,
                [op |-> "db", label |-> label,
                 literal |-> StringLiteral(scan.chars), terminator |-> 36]),
            !.currentMiddleCode = @
                \o <<[op |-> "setcursor", row |-> Dec(st.row), col |-> Dec(st.col)],
                     [op |-> "colorz", color |-> Dec(currentAttribute),
                      write |-> Dec(Len(scan.chars))],
                     [op |-> "print", label |-> label]>>,
            !.segments = Append(@,
                [kind |-> "text", row |-> st.row, start |-> st.col,
                 end |-> scan.end, chars |-> scan.chars,
                 attribute |-> currentAttribute]),
            !.col = scan.end]

\* lines 116-140: emit the text segment found by the text loop
EmitTextSegment(st, currentAttribute, scan) ==
    LET label == Label(st.stringCounter, st.row, st.col)
        len == Len(scan.chars)
    IN  [st EXCEPT
            !.stringCounter = st.stringCounter + 1,
            !.string_data_declarations = Append(@,
                [op |-> "db", label |-> label,
                 literal |-> StringLiteral(scan.chars), terminator |-> 36]),
            !.currentMiddleCode = @
                \o <<[op |-> "setcursor", row |-> Dec(st.row), col |-> Dec(st.col)]>>
                \o (IF currentAttribute # 7
                    THEN <<[op |-> "colorz", color |-> Dec(currentAttribute),
                            write |-> Dec(len)]>>
                    ELSE <<>>)
                \o <<[op |-> "print", label |-> label]>>,
            !.segments = Append(@,
                [kind |-> "text", row |-> st.row, start |-> st.col,
                 end |-> scan.end, chars |-> scan.chars,
                 attribute |-> currentAttribute]),
            !.col = scan.end]

\* the renderc path with the cursor column doubled
EmitBlockSegment_DoubledColumn(g, st, cell) ==
    LET renderChar == IF cell.charCode # NULL THEN cell.charCode ELSE 32
        renderAttribute == IF cell.attribute # NULL THEN cell.attribute ELSE 7
        scan == BlockScan(g, st.row, st.col, renderChar, renderAttribute, 0)
    IN  IF scan.count > 0
        THEN [st EXCEPT
                !.currentMiddleCode = @
                    \o <<[op |-> "setcursor", row |-> Dec(st.row),
                          col |-> Dec(2 * st.col)],
                         [op |-> "renderc", char |-> Dec(renderChar), page |-> Dec(0),
                          color |-> Hex2(renderAttribute), write |-> Dec(scan.count)]>>,
                !.segments = Append(@,
                    [kind |-> "block", row |-> st.row, start |-> st.col,
                     end |-> scan.end, chars |-> <<renderChar>>,
                     attribute |-> renderAttribute]),
                !.col = scan.end]
        ELSE [st EXCEPT !.col = st.col + 1]

\* lines 148-177: the renderc path
EmitBlockSegment(g, st, cell) ==
    LET renderChar == IF cell.charCode # NULL THEN cell.charCode ELSE 32
        renderAttribute == IF cell.attribute # NULL THEN cell.attribute ELSE 7
        scan == BlockScan(g, st.row, st.col, renderChar, renderAttribute, 0)
    IN  IF scan.count > 0
        THEN [st EXCEPT
                !.currentMiddleCode = @
                    \o <<[op |-> "setcursor", row |-> Dec(st.row), col |-> Dec(st.col)],
                         [op |-> "renderc", char |-> Dec(renderChar), page |-> Dec(0),
                          color |-> Hex2(renderAttribute), write |-> Dec(scan.count)]>>,
                !.segments = Append(@,
                    [kind |-> "block", row |-> st.row, start |-> st.col,
                     end |-> scan.end, chars |-> <<renderChar>>,
                     attribute |-> renderAttribute]),
                !.col = scan.end]
        ELSE [st EXCEPT !.col = st.col + 1]

\* the column loop with an absent attribute read as 0 at line 95
WhileBody_DefaultZero(g, st) ==
    LET cell == At(g, st.row, st.col)
    IN  IF IsSkipped(cell)
        THEN [st EXCEPT !.col = st.col + 1]
        ELSE LET currentAttribute == IF cell.attribute # NULL THEN cell.attribute ELSE 0
                 scan == TextScan(g, st.row, st.col, currentAttribute, <<>>)
             IN  IF StartsText(cell) /\ Len(scan.chars) > 0
                 THEN EmitTextSegment(st, currentAttribute, scan)
                 ELSE EmitBlockSegment(g, st, cell)

\* lines 82-177: one iteration of the column loop (st.col < row length)
WhileBody(g, st) ==
    LET cell == At(g, st.row, st.col)
    IN  IF IsSkipped(cell)
        THEN [st EXCEPT !.col = st.col + 1]
        ELSE LET currentAttribute == IF cell.attribute # NULL THEN cell.attribute ELSE 7
                 scan == TextScan(g, st.row, st.col, currentAttribute, <<>>)
             IN  IF StartsText(cell) /\ Len(scan.chars) > 0
                 THEN EmitTextSegment(st, currentAttribute, scan)
                 ELSE EmitBlockSegment(g, st, cell)

\* lines 79-179: the two loops, run to the end from the locals st
RECURSIVE ScanFrom(_, _)
ScanFrom(g, st) ==
    IF st.row >= Rows(g) THEN st
    ELSE IF st.col >= RowLen(g, st.row)
         THEN ScanFrom(g, [st EXCEPT !.row = st.row + 1, !.col = 0])
         ELSE ScanFrom(g, WhileBody(g, st))

----------------------------------------------------------------------------
(* generator.ts lines 11-62: the program template.  The template text is    *)
(* kept as the pieces the generator and the machine tell apart.            *)

Text(t) == [op |-> "text", text |-> t]

\* let macros (lines 11-41)
macros ==
    <<Text("putc/renderc/setcursor/colorz MACRO definitions"),
      Text(".model small\n"),
      Text(".data\n"),
      Text(".code\n")>>

\* const startCode = macros + ... (lines 44-54)
startCode ==
    macros \o <<Text(".stack 100h\nstart :\n mov ds, @data\n video mode 03h\n")>>

\* const endCode (lines 57-62)
endCode == <<Text("mov ah, 4Ch\n int 21h\nend start\n")>>

\* the module-level bindings once generator.ts is loaded (lines 11, 44, 57)
TemplatesLoaded ==
    templates = [macros |-> macros, startCode |-> startCode, endCode |-> endCode]

\* s.lastIndexOf(piece) over the pieces of s, or -1
LastIndexOf(s, piece) ==
    IF \E i \in DOMAIN s : s[i] = piece
    THEN (CHOOSE i \in DOMAIN s :
              s[i] = piece /\ \A j \in (i + 1)..Len(s) : s[j] # piece) - 1
    ELSE -1

\* the string table appended after the whole preamble (the branch of line
\* 194 taken always)
AssembleProgram_AfterPreamble(decls, middle) ==
    startCode \o decls \o middle \o endCode

\* lines 184-198: the returned program, from the templates as they are when
\* the call reads them
AssembleProgram(decls, middle) ==
    LET dataDirectiveIndex == LastIndexOf(templates.startCode, Text(".data\n"))
    IN  (IF dataDirectiveIndex # -1
         THEN SubSeq(templates.startCode, 1, dataDirectiveIndex + 1)
              \o decls
              \o SubSeq(templates.startCode, dataDirectiveIndex + 2,
                        Len(templates.startCode))
         ELSE templates.startCode \o decls)
        \o middle \o templates.endCode

\* generateTASMCode as a function of the grid (lines 74-202)
generateTASMCode(g) ==
    LET st == ScanFrom(g, InitialLocals)
    IN  AssembleProgram(st.string_data_declarations, st.currentMiddleCode)

----------------------------------------------------------------------------
(* src/unnamed/part_004: generateSpriteDB *)

letterMap == <<"K", "B", "G", "C", "R", "M", "Y", "W">>

\* line 25: s.replace(/'/g, "''"), on a sequence of characters
RECURSIVE escapeSingle(_)
escapeSingle(s) ==
    IF s = <<>> THEN <<>>
    ELSE (IF Head(s) = "'" THEN <<"'", "'">> ELSE <<Head(s)>>) \o escapeSingle(Tail(s))

\* the letter looked up by the foreground index of the attribute
SpriteLetter_FromForeground(cell) ==
    IF IsNull(cell) THEN "."
    ELSE IF cell.attribute # NULL
         THEN LET decoded == decodeCellData(cell.attribute)
                  fgIndex == MathMax(0, IndexOf(FOREGROUND_PALETTE, decoded.foregroundColor))
                  letter == ArrayGet(letterMap, fgIndex)
              IN  IF letter = NoColor THEN "?" ELSE letter
         ELSE "."

\* lines 31-44: the letter of one cell
SpriteLetter(cell) ==
    IF IsNull(cell) THEN "."
    ELSE IF cell.attribute # NULL
         THEN LET decoded == decodeCellData(cell.attribute)
                  bgIndex == MathMax(0, IndexOf(BACKGROUND_PALETTE, decoded.backgroundColor))
                  letter == ArrayGet(letterMap, bgIndex)
              IN  IF letter = NoColor THEN "?" ELSE letter
         ELSE "."

\* the row line with the label written on every row
SpriteRow_LabelOnEveryRow(g, r, label) ==
    LET line == [c \in 1..RowLen(g, r) |-> SpriteLetter(At(g, r, c - 1))]
        terminator == IF r = Rows(g) - 1 THEN "$" ELSE "|"
        quoted == <<"'">> \o escapeSingle(Append(line, terminator)) \o <<"'">>
    IN  <<label, "\t", "DB ">> \o quoted

\* lines 29-54: the line pushed for row r
SpriteRow(g, r, label) ==
    LET line == [c \in 1..RowLen(g, r) |-> SpriteLetter(At(g, r, c - 1))]
        terminator == IF r = Rows(g) - 1 THEN "$" ELSE "|"
        quoted == <<"'">> \o escapeSingle(Append(line, terminator)) \o <<"'">>
    IN  IF r = 0
        THEN <<label, "\t", "DB ">> \o quoted
        ELSE <<"\t", "\t", "DB ">> \o quoted

\* rows.join('\n') from row r on
RECURSIVE JoinRows(_, _, _)
JoinRows(g, r, label) ==
    IF r >= Rows(g) THEN <<>>
    ELSE SpriteRow(g, r, label)
         \o (IF r + 1 < Rows(g) THEN <<"\n">> ELSE <<>>)
         \o JoinRows(g, r + 1, label)

\* the result without the early return of line 57
generateSpriteDB_NoEmptyCheck(g, label) == JoinRows(g, 0, label) \o <<"\n">>

\* lines 17-60
generateSpriteDB(g, label) ==
    IF Rows(g) = 0 THEN <<>> ELSE JoinRows(g, 0, label) \o <<"\n">>

----------------------------------------------------------------------------
(* The generated program run on the text screen (video mode 03h): what the  *)
(* macros of lines 12-37 and the DOS string output do to it.               *)

\* the part of the 80x25 screen that lies under the grid
Positions(g) ==
    UNION {{<<r, c>> : c \in 0..(RowLen(g, r) - 1)} : r \in 0..(Rows(g) - 1)}

BlankScreen(g) == [p \in Positions(g) |-> [char |-> 32, attribute |-> 7]]

\* the n positions starting at the cursor
Span(cur, n) == {<<cur[1], cur[2] + i>> : i \in 0..(n - 1)}

\* renderc char, page, color, write (int 10h, ah = 09h)
Renderc(scr, cur, char, color, write) ==
    [p \in DOMAIN scr |->
        IF p \in Span(cur, write) THEN [char |-> char, attribute |-> color] ELSE scr[p]]

\* colorz color, write: the attribute of the positions
Colorz(scr, cur, color, write) ==
    [p \in DOMAIN scr |->
        IF p \in Span(cur, write) THEN [scr[p] EXCEPT !.attribute = color] ELSE scr[p]]

\* the characters the assembler stores for a quoted literal ("" is one quote)
RECURSIVE Unquote(_)
Unquote(lit) ==
    IF lit = <<>> THEN <<>>
    ELSE IF Len(lit) >= 2 /\ lit[1] = 34 /\ lit[2] = 34
         THEN <<34>> \o Unquote(SubSeq(lit, 3, Len(lit)))
         ELSE <<Head(lit)>> \o Unquote(Tail(lit))

\* the bytes up to the first '$'
RECURSIVE UpToDollar(_)
UpToDollar(bytes) ==
    IF bytes = <<>> \/ Head(bytes) = 36 THEN <<>>
    ELSE <<Head(bytes)>> \o UpToDollar(Tail(bytes))

\* the string a label names in the program's data
StringAt(program, label) ==
    LET i == CHOOSE i \in DOMAIN program :
                 program[i].op = "db" /\ program[i].label = label
    IN  UpToDollar(Append(Unquote(program[i].literal), program[i].terminator))

\* mov ah, 09h / mov dx, offset label / int 21h: the characters at
\* successive positions from the cursor, attributes kept
PrintString(scr, cur, str) ==
    [p \in DOMAIN scr |->
        IF p \in Span(cur, Len(str))
        THEN [scr[p] EXCEPT !.char = str[p[2] - cur[2] + 1]]
        ELSE scr[p]]

----------------------------------------------------------------------------
(* The grids handed to the generators *)

\* the cells a grid is drawn from: the null slot, the explicit empty pair,
\* characters with and without an attribute, '$', space, '"', colour-only cells
Cells ==
    {NullCell, CellContent(NULL, NULL),
     CellContent(65, 7), CellContent(66, NULL), CellContent(65, 30),
     CellContent(36, 7), CellContent(32, 30), CellContent(34, 7),
     CellContent(NULL, 30), CellContent(NULL, 7)}

Shapes == {s \in (1..MaxCells) \X (1..MaxCells) : s[1] * s[2] <= MaxCells}

Grids == {<<>>} \cup UNION {[1..s[1] -> [1..s[2] -> Cells]] : s \in Shapes}

NoDecoded == [isBlinking |-> FALSE, backgroundColor |-> NoColor, foregroundColor |-> NoColor]
NoArgs == [bgIndex |-> NULL, fgIndex |-> NULL, isBlinking |-> FALSE]
CodecOff == [pc |-> "off", args |-> NoArgs, value |-> NULL, decoded |-> NoDecoded]
NoCalls == <<>>
EditorOff == [on |-> FALSE]
ShareOff == [pc |-> "off"]
StorageOff == [rows |-> NULL, cols |-> NULL, data |-> <<>>]

Locals ==
    [row |-> row, col |-> col, stringCounter |-> stringCounter,
     string_data_declarations |-> string_data_declarations,
     currentMiddleCode |-> currentMiddleCode, segments |-> segments]

LocalsStart ==
    /\ row = 0
    /\ col = 0
    /\ stringCounter = 0
    /\ string_data_declarations = <<>>
    /\ currentMiddleCode = <<>>
    /\ segments = <<>>

SetLocals(st) ==
    /\ row' = st.row
    /\ col' = st.col
    /\ stringCounter' = st.stringCounter
    /\ string_data_declarations' = st.string_data_declarations
    /\ currentMiddleCode' = st.currentMiddleCode
    /\ segments' = st.segments

Init ==
    /\ grid \in Grids
    /\ pc = "idle"
    /\ LocalsStart
    /\ finalTASMCode = <<>>
    /\ spriteDB = <<>>
    /\ ip = 0
    /\ cursor = <<0, 0>>
    /\ screen = BlankScreen(grid)
    /\ codec = CodecOff
    /\ calls = NoCalls
    /\ TemplatesLoaded
    /\ editor = EditorOff
    /\ share = ShareOff
    /\ localStorage = StorageOff

----------------------------------------------------------------------------
(* generateTASMCode, one loop iteration at a time *)

\* lines 74-77: the call; its locals start afresh
CallGenerateTASM ==
    /\ pc = "idle"
    /\ pc' = "scan"
    /\ SetLocals(InitialLocals)
    /\ UNCHANGED <<grid, finalTASMCode, spriteDB, runVars, codec, calls, templates, editor, share, localStorage>>

InColumnLoop == pc = "scan" /\ row < Rows(grid) /\ col < RowLen(grid, row)

\* lines 84-87 (and 92-95): an absent cell is stepped over
SkipCell ==
    /\ InColumnLoop
    /\ IsSkipped(At(grid, row, col))
    /\ SetLocals(WhileBody(grid, Locals))
    /\ UNCHANGED <<grid, pc, finalTASMCode, spriteDB, runVars, codec, calls, templates, editor, share, localStorage>>

\* the text loop of line 101 run from the cursor
TextScanHere ==
    LET cell == At(grid, row, col)
    IN  TextScan(grid, row, col,
                 IF cell.attribute # NULL THEN cell.attribute ELSE 7, <<>>)

TakesTextPath ==
    /\ ~IsSkipped(At(grid, row, col))
    /\ StartsText(At(grid, row, col))
    /\ Len(TextScanHere.chars) > 0

\* lines 97-140: a text segment is emitted
TextSegment ==
    /\ InColumnLoop
    /\ TakesTextPath
    /\ SetLocals(WhileBody(grid, Locals))
    /\ UNCHANGED <<grid, pc, finalTASMCode, spriteDB, runVars, codec, calls, templates, editor, share, localStorage>>

\* lines 148-177: a block segment is emitted (or the cursor steps on)
BlockSegment ==
    /\ InColumnLoop
    /\ ~IsSkipped(At(grid, row, col))
    /\ ~TakesTextPath
    /\ SetLocals(WhileBody(grid, Locals))
    /\ UNCHANGED <<grid, pc, finalTASMCode, spriteDB, runVars, codec, calls, templates, editor, share, localStorage>>

\* line 79: row++ at the end of a row
NextRow ==
    /\ pc = "scan" /\ row < Rows(grid) /\ col >= RowLen(grid, row)
    /\ row' = row + 1
    /\ col' = 0
    /\ UNCHANGED <<grid, pc, stringCounter, string_data_declarations,
                   currentMiddleCode, segments, finalTASMCode, spriteDB,
                   runVars, codec, calls, templates, editor, share, localStorage>>

\* the return of a variant that concatenates the string table into the
\* shared preamble instead of a local
ReturnTASM_ConcatenatesIntoStartCode ==
    /\ pc = "scan" /\ row >= Rows(grid)
    /\ finalTASMCode' = AssembleProgram(string_data_declarations, currentMiddleCode)
    /\ templates' = [templates EXCEPT !.startCode = @ \o string_data_declarations]
    /\ pc' = "returned"
    /\ UNCHANGED <<grid, row, col, stringCounter, string_data_declarations,
                   currentMiddleCode, segments, spriteDB, runVars, codec, calls,
                   editor, share, localStorage>>

\* lines 184-201: the program is assembled and returned
ReturnTASM ==
    /\ pc = "scan" /\ row >= Rows(grid)
    /\ finalTASMCode' = AssembleProgram(string_data_declarations, currentMiddleCode)
    /\ pc' = "returned"
    /\ UNCHANGED <<grid, row, col, stringCounter, string_data_declarations,
                   currentMiddleCode, segments, spriteDB, runVars, codec, calls, templates, editor, share, localStorage>>

\* part_004 lines 17-60: the other export
CallGenerateSpriteDB ==
    /\ pc = "idle"
    /\ spriteDB' = generateSpriteDB(grid, "SPRITE")
    /\ pc' = "sprite"
    /\ UNCHANGED <<grid, genVars, runVars, codec, calls, templates, editor, share, localStorage>>

----------------------------------------------------------------------------
(* The returned program, run *)

Item == finalTASMCode[ip]

\* start: ... int 10h (lines 46-53): the entry point sets the video mode
RunStart ==
    /\ pc = "returned"
    /\ ip' = 1 + (CHOOSE i \in DOMAIN finalTASMCode :
                      finalTASMCode[i] = startCode[Len(startCode)])
    /\ screen' = BlankScreen(grid)
    /\ cursor' = <<0, 0>>
    /\ pc' = "running"
    /\ UNCHANGED <<grid, genVars, spriteDB, codec, calls, templates, editor, share, localStorage>>

Running(op) == pc = "running" /\ ip \in DOMAIN finalTASMCode /\ Item.op = op

ExecSetCursor ==
    /\ Running("setcursor")
    /\ cursor' = <<NumValue(Item.row), NumValue(Item.col)>>
    /\ ip' = ip + 1
    /\ UNCHANGED <<grid, pc, genVars, spriteDB, screen, codec, calls, templates, editor, share, localStorage>>

ExecRenderc ==
    /\ Running("renderc")
    /\ screen' = Renderc(screen, cursor, NumValue(Item.char), NumValue(Item.color),
                         NumValue(Item.write))
    /\ ip' = ip + 1
    /\ UNCHANGED <<grid, pc, genVars, spriteDB, cursor, codec, calls, templates, editor, share, localStorage>>

ExecColorz ==
    /\ Running("colorz")
    /\ screen' = Colorz(screen, cursor, NumValue(Item.color), NumValue(Item.write))
    /\ ip' = ip + 1
    /\ UNCHANGED <<grid, pc, genVars, spriteDB, cursor, codec, calls, templates, editor, share, localStorage>>

ExecPrint ==
    /\ Running("print")
    /\ LET str == StringAt(finalTASMCode, Item.label)
       IN  /\ screen' = PrintString(screen, cursor, str)
           /\ cursor' = <<cursor[1], cursor[2] + Len(str)>>
    /\ ip' = ip + 1
    /\ UNCHANGED <<grid, pc, genVars, spriteDB, codec, calls, templates, editor, share, localStorage>>

\* lines 58-60: the program exits
ExecExit ==
    /\ Running("text")
    /\ pc' = "halted"
    /\ UNCHANGED <<grid, genVars, spriteDB, runVars, codec, calls, templates, editor, share, localStorage>>

Next ==
    \/ CallGenerateTASM
    \/ SkipCell
    \/ TextSegment
    \/ BlockSegment
    \/ NextRow
    \/ ReturnTASM
    \/ CallGenerateSpriteDB
    \/ RunStart
    \/ ExecSetCursor
    \/ ExecRenderc
    \/ ExecColorz
    \/ ExecPrint
    \/ ExecExit

Spec == Init /\ [][Next]_vars

----------------------------------------------------------------------------
(* generateTASMCode called again and again on the same grid *)

\* lines 74-77: a further call after one has returned; the locals start
\* afresh, the text returned before stays with the caller
CallAgain ==
    /\ pc = "returned"
    /\ pc' = "scan"
    /\ SetLocals(InitialLocals)
    /\ UNCHANGED <<grid, finalTASMCode, spriteDB, runVars, codec, calls, templates, editor, share, localStorage>>

NextRepeat ==
    \/ CallGenerateTASM
    \/ SkipCell
    \/ TextSegment
    \/ BlockSegment
    \/ NextRow
    \/ ReturnTASM
    \/ CallAgain

SpecRepeat == Init /\ [][NextRepeat]_vars

----------------------------------------------------------------------------
(* generateTASMCode on grids whose character cells may lack an attribute:  *)
(* a letter, '$' and space without attribute beside coloured cells         *)

AbsentCells ==
    {NullCell, CellContent(66, NULL), CellContent(36, NULL), CellContent(32, NULL),
     CellContent(65, 30), CellContent(NULL, 7), CellContent(NULL, 30)}

AbsentGrids == UNION {[1..s[1] -> [1..s[2] -> AbsentCells]] : s \in Shapes}

InitAbsent ==
    /\ grid \in AbsentGrids
    /\ pc = "idle"
    /\ LocalsStart
    /\ finalTASMCode = <<>>
    /\ spriteDB = <<>>
    /\ ip = 0
    /\ cursor = <<0, 0>>
    /\ screen = BlankScreen(grid)
    /\ codec = CodecOff
    /\ calls = NoCalls
    /\ TemplatesLoaded
    /\ editor = EditorOff
    /\ share = ShareOff
    /\ localStorage = StorageOff

SpecAbsent == InitAbsent /\ [][Next]_vars

----------------------------------------------------------------------------
(* generateTASMCode handed rows of differing lengths: the parameter is     *)
(* typed (CellContent | null)[][] and lines 74-82 take it as it comes      *)

JaggedCells ==
    {NullCell, CellContent(65, 7), CellContent(65, 30), CellContent(NULL, 30)}

\* the row lengths of a grid of two rows that differ in length
JaggedShapes ==
    {s \in (0..MaxCells) \X (0..MaxCells) : s[1] # s[2] /\ s[1] + s[2] <= MaxCells}

JaggedGrids ==
    UNION {{<<top, bottom>> : top \in [1..s[1] -> JaggedCells],
                              bottom \in [1..s[2] -> JaggedCells]} : s \in JaggedShapes}

InitJagged ==
    /\ grid \in JaggedGrids
    /\ pc = "idle"
    /\ LocalsStart
    /\ finalTASMCode = <<>>
    /\ spriteDB = <<>>
    /\ ip = 0
    /\ cursor = <<0, 0>>
    /\ screen = BlankScreen(grid)
    /\ codec = CodecOff
    /\ calls = NoCalls
    /\ TemplatesLoaded
    /\ editor = EditorOff
    /\ share = ShareOff
    /\ localStorage = StorageOff

SpecJagged == InitJagged /\ [][Next]_vars

----------------------------------------------------------------------------
(* Two calls of generateTASMCode, each on its own snapshot, their loop     *)
(* iterations interleaved in any order.  Each call has the locals of lines *)
(* 75-77 to itself; the two share the template only.                       *)

Invocations == {1, 2}

\* the cells of the two snapshots: characters in two attributes, a
\* colour-only cell
PairCells == {CellContent(65, 7), CellContent(66, 30), CellContent(NULL, 30)}

PairShapes ==
    {s \in (1..MaxPairCells) \X (1..MaxPairCells) : s[1] * s[2] <= MaxPairCells}

PairGrids == {<<>>} \cup UNION {[1..s[1] -> [1..s[2] -> PairCells]] : s \in PairShapes}

NewCall(g) ==
    [gridData |-> g, pc |-> "idle", st |-> InitialLocals, finalTASMCode |-> <<>>]

InitPair ==
    /\ grid = <<>>
    /\ pc = "pair"
    /\ LocalsStart
    /\ finalTASMCode = <<>>
    /\ spriteDB = <<>>
    /\ ip = 0
    /\ cursor = <<0, 0>>
    /\ screen = BlankScreen(<<>>)
    /\ codec = CodecOff
    /\ calls \in [Invocations -> {NewCall(g) : g \in PairGrids}]
    /\ TemplatesLoaded
    /\ editor = EditorOff
    /\ share = ShareOff
    /\ localStorage = StorageOff

\* the label counter call i reads and advances: its own (line 77)
CounterOf_ModuleLevel(i) == calls[1].st.stringCounter + calls[2].st.stringCounter

CounterOf(i) == calls[i].st.stringCounter

\* lines 74-77
PairCall(i) ==
    /\ calls[i].pc = "idle"
    /\ calls' = [calls EXCEPT ![i].pc = "scan", ![i].st = InitialLocals]
    /\ UNCHANGED <<grid, pc, genVars, spriteDB, runVars, codec, templates, editor, share, localStorage>>

\* lines 82-177: one iteration of the column loop of call i
PairIterate(i) ==
    /\ calls[i].pc = "scan"
    /\ calls[i].st.row < Rows(calls[i].gridData)
    /\ calls[i].st.col < RowLen(calls[i].gridData, calls[i].st.row)
    /\ calls' = [calls EXCEPT ![i].st =
                    WhileBody(calls[i].gridData,
                              [calls[i].st EXCEPT !.stringCounter = CounterOf(i)])]
    /\ UNCHANGED <<grid, pc, genVars, spriteDB, runVars, codec, templates, editor, share, localStorage>>

\* line 79: row++ in call i
PairNextRow(i) ==
    /\ calls[i].pc = "scan"
    /\ calls[i].st.row < Rows(calls[i].gridData)
    /\ calls[i].st.col >= RowLen(calls[i].gridData, calls[i].st.row)
    /\ calls' = [calls EXCEPT ![i].st.row = @ + 1, ![i].st.col = 0]
    /\ UNCHANGED <<grid, pc, genVars, spriteDB, runVars, codec, templates, editor, share, localStorage>>

\* lines 184-201: call i returns its program
PairReturn(i) ==
    /\ calls[i].pc = "scan"
    /\ calls[i].st.row >= Rows(calls[i].gridData)
    /\ calls' = [calls EXCEPT
                    ![i].finalTASMCode =
                        AssembleProgram(calls[i].st.string_data_declarations,
                                        calls[i].st.currentMiddleCode),
                    ![i].pc = "returned"]
    /\ UNCHANGED <<grid, pc, genVars, spriteDB, runVars, codec, templates, editor, share, localStorage>>

NextPair ==
    \/ \E i \in Invocations : PairCall(i)
    \/ \E i \in Invocations : PairIterate(i)
    \/ \E i \in Invocations : PairNextRow(i)
    \/ \E i \in Invocations : PairReturn(i)

SpecPair == InitPair /\ [][NextPair]_vars

----------------------------------------------------------------------------
(* generateSpriteDB on grids whose attributes cover every background, with  *)
(* the default label and with a label the caller gives                      *)

\* attributes of every background index 0..7, two of them blinking
SpriteAttributes == {7, 30, 32, 52, 79, 90, 96, 112, 143, 240}

\* the null slot, the empty pair, a character without attribute, characters
\* with the lower attributes and colour-only cells with the higher ones
SpriteCells ==
    {NullCell, CellContent(NULL, NULL), CellContent(65, NULL)}
    \cup {CellContent(IF a < 80 THEN 65 ELSE NULL, a) : a \in SpriteAttributes}

SpriteShapes ==
    {s \in (1..MaxSpriteCells) \X (1..MaxSpriteCells) : s[1] * s[2] <= MaxSpriteCells}

SpriteGrids ==
    {<<>>} \cup UNION {[1..s[1] -> [1..s[2] -> SpriteCells]] : s \in SpriteShapes}

InitSprite ==
    /\ grid \in SpriteGrids
    /\ pc = "idle"
    /\ LocalsStart
    /\ finalTASMCode = <<>>
    /\ spriteDB = <<>>
    /\ ip = 0
    /\ cursor = <<0, 0>>
    /\ screen = BlankScreen(grid)
    /\ codec = CodecOff
    /\ calls = NoCalls
    /\ TemplatesLoaded
    /\ editor = EditorOff
    /\ share = ShareOff
    /\ localStorage = StorageOff

\* part_004 lines 17-20: the call with a label argument
CallGenerateSpriteDBLabelled ==
    /\ pc = "idle"
    /\ spriteDB' = generateSpriteDB(grid, "SPRITE_5")
    /\ pc' = "sprite5"
    /\ UNCHANGED <<grid, genVars, runVars, codec, calls, templates, editor, share, localStorage>>

NextSprite == CallGenerateSpriteDB \/ CallGenerateSpriteDBLabelled

SpecSprite == InitSprite /\ [][NextSprite]_vars

----------------------------------------------------------------------------
(* The codec calls of one edit (src/src/color.ts, src/src/grid/grid.ts)     *)

Bytes == 0..255
EncodeArgs == [bgIndex : 0..7, fgIndex : 0..15, isBlinking : BOOLEAN]

\* either the editor encodes the selected colours and the cell is decoded to
\* be drawn, or a stored attribute byte is decoded and its blink is toggled
InitCodec ==
    /\ grid = <<>>
    /\ pc = "codec"
    /\ LocalsStart
    /\ finalTASMCode = <<>>
    /\ spriteDB = <<>>
    /\ ip = 0
    /\ cursor = <<0, 0>>
    /\ screen = BlankScreen(<<>>)
    /\ calls = NoCalls
    /\ TemplatesLoaded
    /\ editor = EditorOff
    /\ share = ShareOff
    /\ localStorage = StorageOff
    /\ \/ \E a \in EncodeArgs :
             codec = [pc |-> "args", args |-> a, value |-> NULL, decoded |-> NoDecoded]
       \/ \E b \in Bytes :
             codec = [pc |-> "byte", args |-> NoArgs, value |-> b, decoded |-> NoDecoded]

\* grid.ts line 71: encodeCellData of the selected indices
Encode ==
    /\ codec.pc = "args"
    /\ codec' = [codec EXCEPT !.value = encodeCellData(codec.args), !.pc = "encoded"]
    /\ UNCHANGED <<grid, pc, genVars, spriteDB, runVars, calls, templates, editor, share, localStorage>>

\* grid.ts lines 30 and 62: decodeCellData of a cell's attribute
Decode ==
    /\ codec.pc \in {"encoded", "byte"}
    /\ codec' = [codec EXCEPT
                    !.decoded = decodeCellData(codec.value),
                    !.pc = IF codec.pc = "encoded" THEN "drawn" ELSE "decoded"]
    /\ UNCHANGED <<grid, pc, genVars, spriteDB, runVars, calls, templates, editor, share, localStorage>>

\* grid.ts lines 60-69: the blink of an existing cell is toggled
ToggleBlink ==
    /\ codec.pc = "decoded"
    /\ LET idx == IndicesOf(codec.decoded)
       IN  codec' = [codec EXCEPT
                        !.args = [idx EXCEPT !.isBlinking = ~codec.decoded.isBlinking],
                        !.value = encodeCellData(
                                     [idx EXCEPT !.isBlinking = ~codec.decoded.isBlinking]),
                        !.pc = "toggled"]
    /\ UNCHANGED <<grid, pc, genVars, spriteDB, runVars, calls, templates, editor, share, localStorage>>

NextCodec == Encode \/ Decode \/ ToggleBlink

SpecCodec == InitCodec /\ [][NextCodec]_vars

----------------------------------------------------------------------------
(* The words of the claims *)

\* an absent cell: a null slot, or both fields null
IsAbsent(cell) ==
    IF IsNull(cell) THEN TRUE ELSE cell.charCode = NULL /\ cell.attribute = NULL

\* effective character and attribute of a non-null cell
EffChar(cell) == IF cell.charCode # NULL THEN cell.charCode ELSE 32
EffAttr(cell) == IF cell.attribute # NULL THEN cell.attribute ELSE 7

\* the cell has a character code
HasChar(cell) == IF IsNull(cell) THEN FALSE ELSE cell.charCode # NULL

\* the attribute a cell shows: 0x07 where none is stored
ShownAttr(cell) == IF IsNull(cell) THEN 7 ELSE EffAttr(cell)

\* the column scan has passed position p
Scanned(p) == p[1] < row \/ (p[1] = row /\ p[2] < col)

\* the cells segment seg took from the row: columns start .. end - 1
Covers(seg, p) == seg.row = p[1] /\ seg.start <= p[2] /\ p[2] < seg.end

\* the columns the directives of seg write to: as many as the string has
\* characters, or as the fill repeats
Width(seg) == IF seg.kind = "text" THEN Len(seg.chars) ELSE seg.end - seg.start
Extent(seg) == seg.start..(seg.start + Width(seg) - 1)

SegmentsOfRow(r) == {i \in DOMAIN segments : segments[i].row = r}

NonAbsentColumns(g, r) == {c \in 0..(RowLen(g, r) - 1) : ~IsAbsent(At(g, r, c))}

\* an empty cell in the other representation of empty
SwapEmpty(cell) == IF IsNull(cell) THEN CellContent(NULL, NULL) ELSE NullCell

\* the grids that differ from g only in how empty cells are represented
Variants(g) ==
    {h \in [DOMAIN g -> UNION {[DOMAIN g[r] -> Cells \cup {NullCell}] : r \in DOMAIN g}] :
        \A r \in DOMAIN g :
            /\ DOMAIN h[r] = DOMAIN g[r]
            /\ \A c \in DOMAIN g[r] :
                   h[r][c] = g[r][c] \/ (IsAbsent(g[r][c]) /\ h[r][c] = SwapEmpty(g[r][c]))}

----------------------------------------------------------------------------
(* The editor: src/src/state/appState.ts (dimensions and grid),            *)
(* src/src/grid/canvasGrid.ts (history, drawing, fill, resize),            *)
(* src/unnamed/part_002 (cut, paste) and the listeners recorded in         *)
(* src/.amazonq/rules/memory-bank/tech.md.                                 *)
(* The variable editor holds gridRows, gridCols, gridData, undoStack and   *)
(* redoStack; beside them steps counts the handlers run, and last / last2  *)
(* remember the handler run last (and the one before) with the grid and    *)
(* the stacks it found.                                                    *)

\* canvasGrid.ts line 54
MAX_HISTORY == 50

\* the palette selection the editor is started with, and the key typed:
\* yellow on blue, 'A'
CurrentBgIndex == 1
CurrentFgIndex == 14
TypedCharCode == 65

\* a ?? b
Nullish(a, b) == IF a = NULL THEN b ELSE a

\* a || b on numbers: 0 is falsy
OrElse(a, b) == IF a = NULL \/ a = 0 THEN b ELSE a

\* lines 114-118
deepCopyGrid(g) ==
    [r \in DOMAIN g |->
        [c \in DOMAIN g[r] |->
            IF IsNull(g[r][c]) THEN NullCell
            ELSE CellContent(g[r][c].charCode, g[r][c].attribute)]]

\* gridData[r]?.[c] || null, and gridData[r][c] where row r exists
Slot(g, r, c) ==
    IF r < Rows(g) /\ c < RowLen(g, r) THEN At(g, r, c) ELSE NullCell

\* gridData[r][c] = v where row r exists: an index past the end lengthens
\* the row (the slots between are holes, read as null)
PutAt(g, r, c, v) ==
    LET old == g[r + 1]
        len == MathMax(Len(old), c + 1)
    IN  [g EXCEPT ![r + 1] =
            [k \in 1..len |-> IF k = c + 1 THEN v
                              ELSE IF k <= Len(old) THEN old[k] ELSE NullCell]]

\* saveToHistory without the shift of lines 126-128
saveToHistory_Unbounded(e) ==
    [e EXCEPT !.undoStack = Append(e.undoStack, deepCopyGrid(e.gridData)),
              !.redoStack = <<>>]

\* lines 123-132
saveToHistory(e) ==
    LET pushed == Append(e.undoStack, deepCopyGrid(e.gridData))
    IN  [e EXCEPT !.undoStack = IF Len(pushed) > MAX_HISTORY THEN Tail(pushed) ELSE pushed,
                  !.redoStack = <<>>]

\* lines 137-149: the dimensions are left as they are
undo(e) ==
    IF Len(e.undoStack) = 0 THEN e
    ELSE [e EXCEPT !.redoStack = Append(e.redoStack, deepCopyGrid(e.gridData)),
                   !.undoStack = SubSeq(e.undoStack, 1, Len(e.undoStack) - 1),
                   !.gridData = e.undoStack[Len(e.undoStack)]]

\* redo that installs the popped grid without pushing the current one
redo_ForgetsCurrent(e) ==
    IF Len(e.redoStack) = 0 THEN e
    ELSE [e EXCEPT !.redoStack = SubSeq(e.redoStack, 1, Len(e.redoStack) - 1),
                   !.gridData = e.redoStack[Len(e.redoStack)]]

\* lines 154-166
redo(e) ==
    IF Len(e.redoStack) = 0 THEN e
    ELSE [e EXCEPT !.undoStack = Append(e.undoStack, deepCopyGrid(e.gridData)),
                   !.redoStack = SubSeq(e.redoStack, 1, Len(e.redoStack) - 1),
                   !.gridData = e.redoStack[Len(e.redoStack)]]

\* lines 602-625 (and tech.md lines 116-127): the new grid and dimensions
resizeGrid(e, newRows, newCols) ==
    [e EXCEPT !.gridRows = newRows,
              !.gridCols = newCols,
              !.gridData = [i \in 1..newRows |->
                               [j \in 1..newCols |-> Slot(e.gridData, i - 1, j - 1)]]]

\* lines 362-398; tool is "erase", "blink" or "draw".  Line 364 throws on a
\* row the data lacks, which leaves the grid as it is.  decodeCellData
\* returns no bgIndex / fgIndex, so line 373 encodes undefined (0) for both
applyDrawing(e, r, c, tool) ==
    IF r >= Rows(e.gridData) THEN e
    ELSE LET slot == Slot(e.gridData, r, c)
             currentCellContent == IF IsNull(slot) THEN CellContent(NULL, NULL) ELSE slot
         IN  IF tool = "erase"
             THEN [e EXCEPT !.gridData = PutAt(e.gridData, r, c, NullCell)]
             ELSE IF tool = "blink"
             THEN IF currentCellContent.attribute # NULL
                  THEN [e EXCEPT !.gridData = PutAt(e.gridData, r, c,
                           CellContent(currentCellContent.charCode,
                               encodeCellData([bgIndex |-> 0, fgIndex |-> 0,
                                   isBlinking |->
                                       ~decodeCellData(currentCellContent.attribute).isBlinking])))]
                  ELSE e
             ELSE IF e.bgIndex # NULL \/ e.fgIndex # NULL
             THEN [e EXCEPT !.gridData = PutAt(e.gridData, r, c,
                      CellContent(currentCellContent.charCode,
                          encodeCellData([bgIndex |-> Nullish(e.bgIndex, 0),
                                          fgIndex |-> Nullish(e.fgIndex, 7),
                                          isBlinking |-> e.isBlinkEnabled])))]
             ELSE e

\* lines 493-495 and 521-523: what flood fill compares of a slot
FillKey(cell) ==
    IF IsNull(cell) THEN <<NoColor, NoColor, NULL>>
    ELSE <<IF OrElse(cell.attribute, NULL) # NULL
           THEN decodeCellData(cell.attribute).backgroundColor ELSE NoColor,
           IF OrElse(cell.attribute, NULL) # NULL
           THEN decodeCellData(cell.attribute).foregroundColor ELSE NoColor,
           OrElse(cell.charCode, NULL)>>

\* lines 511-533: the loop over the stack (its top is the last element),
\* painting gridData in place; gridData[row][col] throws on a row the data
\* lacks, which ends the handler with the cells painted so far
RECURSIVE FillLoop(_, _, _, _, _)
FillLoop(e, g, key, stack, visited) ==
    IF stack = <<>> THEN g
    ELSE LET p == stack[Len(stack)]
             rest == SubSeq(stack, 1, Len(stack) - 1)
         IN  IF \/ p \in visited
                \/ p[1] < 0 \/ p[1] >= e.gridRows
                \/ p[2] < 0 \/ p[2] >= e.gridCols
             THEN FillLoop(e, g, key, rest, visited)
             ELSE IF p[1] >= Rows(g) THEN g
             ELSE IF FillKey(Slot(g, p[1], p[2])) # key
             THEN FillLoop(e, g, key, rest, visited)
             ELSE LET slot == Slot(g, p[1], p[2])
                      charCode == IF IsNull(slot) THEN NULL ELSE slot.charCode
                      newAttribute ==
                          encodeCellData([bgIndex |-> Nullish(e.bgIndex, 0),
                                          fgIndex |-> Nullish(e.fgIndex, 7),
                                          isBlinking |-> e.isBlinkEnabled])
                  IN  FillLoop(e, PutAt(g, p[1], p[2], CellContent(charCode, newAttribute)),
                               key,
                               rest \o <<<<p[1] - 1, p[2]>>, <<p[1] + 1, p[2]>>,
                                         <<p[1], p[2] - 1>>, <<p[1], p[2] + 1>>>>,
                               visited \cup {p})

\* lines 483-537, for a start inside the dimensions; line 492 throws on a
\* row the data lacks, after the history was saved
floodFill(e, startRow, startCol) ==
    LET saved == saveToHistory(e)
    IN  IF startRow >= Rows(e.gridData) THEN saved
        ELSE IF e.bgIndex = NULL /\ e.fgIndex = NULL THEN saved
        ELSE [saved EXCEPT !.gridData =
                 FillLoop(e, e.gridData, FillKey(Slot(e.gridData, startRow, startCol)),
                          <<<<startRow, startCol>>>>, {})]

\* tech.md lines 273-289: the clear button, confirmed
clearGrid(e) ==
    [saveToHistory(e) EXCEPT !.gridData =
        [i \in 1..e.gridRows |-> [j \in 1..e.gridCols |-> NullCell]]]

\* part_002 lines 15-45 with the single cell (r, c) selected; copyASCII
\* reads the cell first and throws on a row the data lacks
cutSelection(e, r, c) ==
    IF r >= Rows(e.gridData) THEN e
    ELSE [saveToHistory(e) EXCEPT !.gridData = PutAt(e.gridData, r, c, NullCell)]

\* part_002 lines 95-172 with the one character 'A' on the clipboard and
\* the single cell (r, c) selected; line 157 throws on a row the data lacks
\* and the catch of line 168 leaves the history saved
pasteASCII(e, r, c) ==
    IF r >= Rows(e.gridData) THEN saveToHistory(e)
    ELSE [saveToHistory(e) EXCEPT !.gridData = PutAt(e.gridData, r, c,
             CellContent(TypedCharCode,
                 encodeCellData([bgIndex |-> OrElse(e.bgIndex, 0),
                                 fgIndex |-> OrElse(e.fgIndex, 7),
                                 isBlinking |-> FALSE])))]

\* tech.md lines 638-660: a character typed at the active cell (r, c)
typeCharacter(e, r, c) ==
    LET slot == Slot(e.gridData, r, c)
        cellContent == IF IsNull(slot) THEN CellContent(NULL, NULL) ELSE slot
        isBlinking == IF cellContent.attribute # NULL
                      THEN decodeCellData(cellContent.attribute).isBlinking
                      ELSE e.isBlinkEnabled
    IN  [e EXCEPT !.gridData = PutAt(e.gridData, r, c,
            CellContent(TypedCharCode,
                encodeCellData([bgIndex |-> OrElse(e.bgIndex, 0),
                                fgIndex |-> OrElse(e.fgIndex, 7),
                                isBlinking |-> isBlinking])))]

\* tech.md lines 611-629: Backspace or Delete at the active cell (r, c)
deleteCharacter(e, r, c) ==
    LET slot == Slot(e.gridData, r, c)
    IN  IF IsNull(slot) THEN e
        ELSE [e EXCEPT !.gridData = PutAt(e.gridData, r, c,
                 IF slot.attribute = NULL THEN NullCell
                 ELSE CellContent(NULL, slot.attribute))]

\* the handlers one run may take, and the dimensions the size inputs and
\* the resize handle are moved to
MaxEdits == 3
EditorRows == {1, 2}
EditorCols == {1, 2}

NoAction == [action |-> "none", gridData |-> <<>>, undoStack |-> <<>>, redoStack |-> <<>>]

\* what a handler named action found
Found(e, action) ==
    [action |-> action, gridData |-> e.gridData,
     undoStack |-> e.undoStack, redoStack |-> e.redoStack]

\* createGrid(rows, cols) with nothing in storage (lines 425-447), beside
\* the palette selection and the tool flags (appState.ts lines 8-18), the
\* pan mode and the active cell (canvasGrid.ts lines 25-33)
createGrid(rows, cols) ==
    [on |-> TRUE, gridRows |-> rows, gridCols |-> cols,
     gridData |-> [i \in 1..rows |-> [j \in 1..cols |-> NullCell]],
     undoStack |-> <<>>, redoStack |-> <<>>,
     bgIndex |-> CurrentBgIndex, fgIndex |-> CurrentFgIndex,
     isDrawing |-> FALSE, isErasing |-> FALSE, isTextMode |-> FALSE,
     isFilling |-> FALSE, isSelecting |-> FALSE, isPanning |-> FALSE,
     isBlinkEnabled |-> FALSE, activeRow |-> -1, activeCol |-> -1,
     steps |-> 0, last |-> NoAction, last2 |-> NoAction]

InitEditor ==
    /\ grid = <<>>
    /\ pc = "idle"
    /\ LocalsStart
    /\ finalTASMCode = <<>>
    /\ spriteDB = <<>>
    /\ ip = 0
    /\ cursor = <<0, 0>>
    /\ screen = BlankScreen(grid)
    /\ codec = CodecOff
    /\ calls = NoCalls
    /\ TemplatesLoaded
    /\ \E rows \in EditorRows, cols \in EditorCols : editor = createGrid(rows, cols)
    /\ share = ShareOff
    /\ localStorage = StorageOff

\* one handler, named action, taking the editor to after
Handle(action, after) ==
    /\ editor.steps < MaxEdits
    /\ editor' = [after EXCEPT !.steps = editor.steps + 1,
                               !.last = Found(editor, action),
                               !.last2 = editor.last]
    /\ UNCHANGED <<grid, pc, genVars, spriteDB, runVars, codec, calls, templates, share, localStorage>>

\* getCellFromCoordinates (lines 311-334): a cell inside the dimensions
CellsUnderMouse == (0..(editor.gridRows - 1)) \X (0..(editor.gridCols - 1))

\* focusCell (lines 400-416): a cell inside the dimensions whose row the
\* data has
CellsToFocus == {p \in CellsUnderMouse : p[1] < Rows(editor.gridData)}

\* tech.md lines 533-542: mousedown with the draw, erase or blink tool
Draw ==
    \E p \in CellsUnderMouse :
        Handle("draw", applyDrawing(saveToHistory(editor), p[1], p[2], "draw"))

Erase ==
    \E p \in CellsUnderMouse :
        Handle("erase", applyDrawing(saveToHistory(editor), p[1], p[2], "erase"))

BlinkToggle ==
    \E p \in CellsUnderMouse :
        Handle("blink", applyDrawing(saveToHistory(editor), p[1], p[2], "blink"))

\* tech.md lines 533-539: mousedown with the fill tool
Fill ==
    \E p \in CellsUnderMouse :
        Handle("fill", floodFill(saveToHistory(editor), p[1], p[2]))

\* tech.md lines 273-289
Clear ==
    /\ editor.on
    /\ Handle("clear", clearGrid(editor))

\* part_002 lines 15-45
Cut == \E p \in CellsUnderMouse : Handle("cut", cutSelection(editor, p[1], p[2]))

\* part_002 lines 95-172
Paste == \E p \in CellsUnderMouse : Handle("paste", pasteASCII(editor, p[1], p[2]))

\* tech.md lines 597-687: keys in text mode
TypeCharacter ==
    \E p \in CellsToFocus : Handle("type", typeCharacter(editor, p[1], p[2]))

Backspace ==
    \E p \in CellsToFocus : Handle("backspace", deleteCharacter(editor, p[1], p[2]))

Delete ==
    \E p \in CellsToFocus : Handle("delete", deleteCharacter(editor, p[1], p[2]))

\* tech.md lines 107-133: the size inputs, with valid values
ResizeInputs ==
    \E newRows \in EditorRows, newCols \in EditorCols :
        /\ editor.on
        /\ Handle("resizeInputs", resizeGrid(editor, newRows, newCols))

\* canvasGrid.ts lines 574-595: the resize handle dragged to other dimensions
ResizeHandle ==
    \E newRows \in EditorRows, newCols \in EditorCols :
        /\ newRows # editor.gridRows \/ newCols # editor.gridCols
        /\ Handle("resizeHandle", resizeGrid(editor, newRows, newCols))

\* tech.md lines 473-475
Undo ==
    /\ editor.on
    /\ Handle("undo", undo(editor))

\* tech.md lines 477-479
Redo ==
    /\ editor.on
    /\ Handle("redo", redo(editor))

NextEditor ==
    \/ Draw
    \/ Erase
    \/ BlinkToggle
    \/ Fill
    \/ Clear
    \/ Cut
    \/ Paste
    \/ TypeCharacter
    \/ Backspace
    \/ Delete
    \/ ResizeInputs
    \/ ResizeHandle
    \/ Undo
    \/ Redo

SpecEditor == InitEditor /\ [][NextEditor]_vars

----------------------------------------------------------------------------
(* The history alone: a grid of one cell drawn on when empty and erased    *)
(* when drawn, so that every grid saved differs from the one saved before  *)
(* it, with undo and redo, for as many handlers as it takes to fill the    *)
(* history.                                                                *)

InitHistory ==
    /\ grid = <<>>
    /\ pc = "idle"
    /\ LocalsStart
    /\ finalTASMCode = <<>>
    /\ spriteDB = <<>>
    /\ ip = 0
    /\ cursor = <<0, 0>>
    /\ screen = BlankScreen(grid)
    /\ codec = CodecOff
    /\ calls = NoCalls
    /\ TemplatesLoaded
    /\ editor = createGrid(1, 1)
    /\ share = ShareOff
    /\ localStorage = StorageOff

\* one handler, named action, taking the editor to after
Step(action, after) ==
    /\ editor' = [after EXCEPT !.last = Found(editor, action)]
    /\ UNCHANGED <<grid, pc, genVars, spriteDB, runVars, codec, calls, templates, share, localStorage>>

\* tech.md lines 533-542: mousedown on the empty cell with the draw tool
HistoryDraw ==
    /\ IsNull(Slot(editor.gridData, 0, 0))
    /\ Step("draw", applyDrawing(saveToHistory(editor), 0, 0, "draw"))

\* tech.md lines 533-542: mousedown on the drawn cell with the erase tool
HistoryErase ==
    /\ ~IsNull(Slot(editor.gridData, 0, 0))
    /\ Step("erase", applyDrawing(saveToHistory(editor), 0, 0, "erase"))

\* tech.md lines 473-475
HistoryUndo ==
    /\ editor.on
    /\ Step("undo", undo(editor))

\* tech.md lines 477-479
HistoryRedo ==
    /\ editor.on
    /\ Step("redo", redo(editor))

NextHistory == HistoryDraw \/ HistoryErase \/ HistoryUndo \/ HistoryRedo

SpecHistory == InitHistory /\ [][NextHistory]_vars

----------------------------------------------------------------------------
(* The palette: the two colour panels clicked (colorPalette.ts lines       *)
(* 31-47, canvasGrid.ts lines 678-689) between characters typed, pasted    *)
(* and drawn on a grid of one cell                                         *)

\* appState.ts lines 16-17: black background, light grey foreground
InitPalette ==
    /\ grid = <<>>
    /\ pc = "idle"
    /\ LocalsStart
    /\ finalTASMCode = <<>>
    /\ spriteDB = <<>>
    /\ ip = 0
    /\ cursor = <<0, 0>>
    /\ screen = BlankScreen(grid)
    /\ codec = CodecOff
    /\ calls = NoCalls
    /\ TemplatesLoaded
    /\ editor = [createGrid(1, 1) EXCEPT !.bgIndex = 0, !.fgIndex = 7]
    /\ share = ShareOff
    /\ localStorage = StorageOff

\* colorPalette.ts lines 31-42: a swatch clicked; the selected one deselects
SelectBackground ==
    \E index \in 0..(Len(BACKGROUND_PALETTE) - 1) :
        /\ editor.on
        /\ Handle("select", [editor EXCEPT !.bgIndex =
                                IF editor.bgIndex = index THEN NULL ELSE index])

SelectForeground ==
    \E index \in 0..(Len(FOREGROUND_PALETTE) - 1) :
        /\ editor.on
        /\ Handle("select", [editor EXCEPT !.fgIndex =
                                IF editor.fgIndex = index THEN NULL ELSE index])

NextPalette ==
    \/ SelectBackground
    \/ SelectForeground
    \/ TypeCharacter
    \/ Paste
    \/ Draw

SpecPalette == InitPalette /\ [][NextPalette]_vars

----------------------------------------------------------------------------
(* The tools: the tool buttons (tech.md lines 138-199 and 253-267), the    *)
(* text cursor moved by the mouse and the keys (tech.md lines 527-531 and  *)
(* 597-687) and the two ways to resize, on a grid that starts empty        *)

\* appState.ts lines 91-97
setToolState(e, tool) ==
    [e EXCEPT !.isDrawing = (tool = "draw"),
              !.isErasing = (tool = "erase"),
              !.isTextMode = (tool = "text"),
              !.isFilling = (tool = "fill"),
              !.isSelecting = (tool = "select")]

\* canvasGrid.ts lines 454-457
setPanMode(e, enabled) == [e EXCEPT !.isPanning = enabled]

\* canvasGrid.ts lines 418-423: is there an active cell
HasActiveCell(e) == e.activeRow >= 0 /\ e.activeCol >= 0

\* canvasGrid.ts lines 631-637; line 633 throws on a row the data lacks
exitTextModeVisuals(e) ==
    IF HasActiveCell(e) /\ e.activeRow < Rows(e.gridData)
    THEN [e EXCEPT !.activeRow = -1, !.activeCol = -1]
    ELSE e

\* canvasGrid.ts lines 400-416; line 407 throws on a row the data lacks
focusCell(e, r, c) ==
    IF r < 0 \/ r >= e.gridRows \/ c < 0 \/ c >= e.gridCols THEN e
    ELSE IF HasActiveCell(e) /\ e.activeRow >= Rows(e.gridData) THEN e
    ELSE [e EXCEPT !.activeRow = r, !.activeCol = c]

\* the keys of the text mode
TextKeys ==
    {"Backspace", "Delete", "ArrowLeft", "ArrowRight", "ArrowUp", "ArrowDown",
     "Enter", "Home", "End", "A"}

\* tech.md lines 597-687: the canvas keydown listener; lines 612, 622 and
\* 643 throw on a row the data lacks
keydown(e, key) ==
    IF ~e.isTextMode \/ ~HasActiveCell(e) THEN e
    ELSE IF key \in {"Backspace", "Delete", "A"} /\ e.activeRow >= Rows(e.gridData) THEN e
    ELSE LET currentRow == e.activeRow
             currentCol == e.activeCol
             edited == IF key \in {"Backspace", "Delete"}
                       THEN deleteCharacter(e, currentRow, currentCol)
                       ELSE IF key = "A" THEN typeCharacter(e, currentRow, currentCol)
                       ELSE e
             col1 == CASE key \in {"Backspace", "ArrowLeft"} -> currentCol - 1
                       [] key \in {"ArrowRight", "A"} -> currentCol + 1
                       [] key \in {"Enter", "Home"} -> 0
                       [] key = "End" -> e.gridCols - 1
                       [] OTHER -> currentCol
             row1 == CASE key = "ArrowUp" -> currentRow - 1
                       [] key \in {"ArrowDown", "Enter"} -> currentRow + 1
                       [] OTHER -> currentRow
             row2 == IF col1 < 0 THEN row1 - 1
                     ELSE IF col1 >= e.gridCols THEN row1 + 1 ELSE row1
             nextCol == IF col1 < 0 THEN e.gridCols - 1
                        ELSE IF col1 >= e.gridCols THEN 0 ELSE col1
             nextRow == IF row2 < 0 THEN e.gridRows - 1
                        ELSE IF row2 >= e.gridRows THEN 0 ELSE row2
         IN  IF nextRow # currentRow \/ nextCol # currentCol
             THEN focusCell(edited, nextRow, nextCol)
             ELSE edited

\* one listener run, taking the editor to after
Press(after) ==
    /\ editor' = after
    /\ UNCHANGED <<grid, pc, genVars, spriteDB, runVars, codec, calls, templates, share, localStorage>>

InitTools ==
    /\ grid = <<>>
    /\ pc = "idle"
    /\ LocalsStart
    /\ finalTASMCode = <<>>
    /\ spriteDB = <<>>
    /\ ip = 0
    /\ cursor = <<0, 0>>
    /\ screen = BlankScreen(grid)
    /\ codec = CodecOff
    /\ calls = NoCalls
    /\ TemplatesLoaded
    /\ \E rows \in EditorRows, cols \in EditorCols : editor = createGrid(rows, cols)
    /\ share = ShareOff
    /\ localStorage = StorageOff

\* tech.md lines 138-149
ClickDraw ==
    /\ editor.on
    /\ Press(IF editor.isDrawing THEN setToolState(editor, "none")
             ELSE exitTextModeVisuals(setToolState(editor, "draw")))

\* tech.md lines 151-162
ClickErase ==
    /\ editor.on
    /\ Press(IF editor.isErasing THEN setToolState(editor, "none")
             ELSE exitTextModeVisuals(setToolState(editor, "erase")))

\* tech.md lines 164-178
ClickText ==
    /\ editor.on
    /\ Press(IF editor.isTextMode THEN exitTextModeVisuals(setToolState(editor, "none"))
             ELSE focusCell(setToolState(editor, "text"), 0, 0))

\* tech.md lines 180-183
ClickBlink ==
    /\ editor.on
    /\ Press([editor EXCEPT !.isBlinkEnabled = ~editor.isBlinkEnabled])

\* tech.md lines 185-199
ClickFill ==
    /\ editor.on
    /\ Press(IF editor.isFilling THEN setToolState(editor, "none")
             ELSE exitTextModeVisuals(setPanMode(setToolState(editor, "fill"), FALSE)))

\* tech.md lines 254-267
ClickPan ==
    /\ editor.on
    /\ Press(LET panMode == ~editor.isPanning
             IN  IF panMode
                 THEN exitTextModeVisuals(setToolState(setPanMode(editor, panMode), "none"))
                 ELSE setPanMode(editor, panMode))

\* tech.md lines 505-531: mousedown on a cell in text mode, off the resize
\* handle
MouseDownText ==
    /\ ~editor.isPanning
    /\ editor.isTextMode
    /\ \E p \in CellsUnderMouse : Press(focusCell(editor, p[1], p[2]))

\* tech.md lines 597-687
KeyDown == \E key \in TextKeys :
    /\ editor.isTextMode
    /\ HasActiveCell(editor)
    /\ Press(keydown(editor, key))

\* tech.md lines 107-133
ToolsResizeInputs ==
    \E newRows \in EditorRows, newCols \in EditorCols :
        /\ editor.on
        /\ Press(resizeGrid(editor, newRows, newCols))

\* canvasGrid.ts lines 574-595
ToolsResizeHandle ==
    \E newRows \in EditorRows, newCols \in EditorCols :
        /\ newRows # editor.gridRows \/ newCols # editor.gridCols
        /\ Press(resizeGrid(editor, newRows, newCols))

NextTools ==
    \/ ClickDraw
    \/ ClickErase
    \/ ClickText
    \/ ClickBlink
    \/ ClickFill
    \/ ClickPan
    \/ MouseDownText
    \/ KeyDown
    \/ ToolsResizeInputs
    \/ ToolsResizeHandle

SpecTools == InitTools /\ [][NextTools]_vars

-----------------------------------------------------------------------------
(* The share link (README.md): generateShareURL packs every non-empty cell  *)
(* into one 32-bit integer and compresses the JSON text with a run-length   *)
(* code; loadFromURL decompresses the text and unpacks the integers.  A     *)
(* string is a sequence of one-character strings.                           *)

MaxShareLen == 5

\* the rows and columns, and the char codes and attributes, a cell is packed with
ShareCoords == {0, 1, 127, 128, 255}
ShareBytes == {NULL, 0, 1, 65, 128, 255}
\* the characters of the strings that are compressed: a digit, a lowercase
\* letter, the marker of a run and a character that is none of these
ShareChars == {"4", "a", "~", "X"}

ShareStrings == UNION {[1..n -> ShareChars] : n \in 0..MaxShareLen}

\* row << 24 on an 8-bit row: the int32 result is negative from row 128 on
ShiftLeft24(n) == (IF n >= 128 THEN n - 256 ELSE n) * Pow2(24)

\* line 170: the four fields share no bit, so their bitwise or is their sum
pack(r, c, cell) ==
    ShiftLeft24(r) + Shl(c, 16) + Shl(OrElse(cell.charCode, 0), 8)
        + OrElse(cell.attribute, 0)

\* (packed >> n) & 0xFF: the shift is arithmetic, the mask keeps the low byte
ByteAt(packed, n) == (packed \div Pow2(n)) % 256

\* a || null on a number
OrNull(a) == IF a = 0 THEN NULL ELSE a

\* lines 373-385: the cell one packed integer puts into a rows x cols grid;
\* the guard of line 378 keeps a cell outside the grid out
unpack(packed, rows, cols) ==
    LET r == ByteAt(packed, 24)
        c == ByteAt(packed, 16)
        charCode == ByteAt(packed, 8)
        attribute == ByteAt(packed, 0)
    IN  IF r < rows /\ c < cols
        THEN [placed |-> TRUE, row |-> r, col |-> c,
              cell |-> CellContent(OrNull(charCode), OrNull(attribute))]
        ELSE [placed |-> FALSE, row |-> r, col |-> c, cell |-> NullCell]

\* '0123456789abcdefghijklmnopqrstuvwxyz'
Base36Digits ==
    <<"0", "1", "2", "3", "4", "5", "6", "7", "8", "9", "a", "b", "c", "d",
      "e", "f", "g", "h", "i", "j", "k", "l", "m", "n", "o", "p", "q", "r",
      "s", "t", "u", "v", "w", "x", "y", "z">>

IsBase36(ch) == \E k \in DOMAIN Base36Digits : Base36Digits[k] = ch
Base36Value(ch) == (CHOOSE k \in DOMAIN Base36Digits : Base36Digits[k] = ch) - 1

\* count.toString(36)
ToString36(n) ==
    LET ds == Digits(n, 36) IN [k \in DOMAIN ds |-> Base36Digits[ds[k] + 1]]

\* parseInt(countStr, 36) on base-36 digits; NaN (here NULL) on the empty string
RECURSIVE ParseInt36(_)
ParseInt36(countStr) ==
    IF countStr = <<>> THEN NULL
    ELSE IF Len(countStr) = 1 THEN Base36Value(countStr[1])
    ELSE ParseInt36(SubSeq(countStr, 1, Len(countStr) - 1)) * 36
             + Base36Value(countStr[Len(countStr)])

\* char.repeat(count) as text
RepeatChar(ch, count) == [k \in 1..count |-> ch]

\* lines 216-218: the length of the run that starts at index i
RECURSIVE RunCount(_, _, _)
RunCount(str, i, count) ==
    IF i + count < Len(str) /\ str[i + count + 1] = str[i + 1] /\ count < 255
    THEN RunCount(str, i, count + 1)
    ELSE count

\* lines 211-230: the while loop from index i on
RECURSIVE CompressFrom(_, _)
CompressFrom(str, i) ==
    IF i >= Len(str) THEN <<>>
    ELSE LET char == str[i + 1]
             count == RunCount(str, i, 1)
         IN  (IF count > 3
              THEN <<"~">> \o ToString36(count) \o <<char>>
              ELSE RepeatChar(char, count))
             \o CompressFrom(str, i + count)

\* lines 207-233
compressString(str) == CompressFrom(str, 0)

\* lines 252-259: the index behind the base-36 characters that start at i
RECURSIVE CountEnd(_, _)
CountEnd(str, i) ==
    IF i < Len(str) /\ IsBase36(str[i + 1]) THEN CountEnd(str, i + 1) ELSE i

\* The text decompressString builds is kept as its runs, <<count, char>>
\* pairs in order: a count read from the text can run into the millions.
\* Runs of no characters are dropped and neighbours of one character are
\* joined, so two texts are equal exactly when their runs are.
AddRun(runs, count, ch) ==
    IF count = 0 THEN runs
    ELSE IF runs # <<>> /\ runs[Len(runs)][2] = ch
    THEN [runs EXCEPT ![Len(runs)] = <<runs[Len(runs)][1] + count, ch>>]
    ELSE Append(runs, <<count, ch>>)

RECURSIVE RunsFrom(_, _, _)
RunsFrom(str, i, runs) ==
    IF i >= Len(str) THEN runs
    ELSE RunsFrom(str, i + 1, AddRun(runs, 1, str[i + 1]))

RunsOf(str) == RunsFrom(str, 0, <<>>)

\* what decompressString returns, and the TypeError of undefined.repeat(count)
\* at line 263
Returned(runs) == [thrown |-> "", text |-> runs]
TypeError == [thrown |-> "TypeError", text |-> <<>>]

\* lines 243-268: the while loop from index i on; char.repeat(NaN) is ''
RECURSIVE DecompressFrom(_, _, _)
DecompressFrom(str, i, runs) ==
    IF i >= Len(str) THEN Returned(runs)
    ELSE IF str[i + 1] = "~"
    THEN LET j == CountEnd(str, i + 1)
             count == ParseInt36(SubSeq(str, i + 2, j))
         IN  IF j >= Len(str) THEN TypeError
             ELSE DecompressFrom(str, j + 1,
                      AddRun(runs, Nullish(count, 0), str[j + 1]))
    ELSE DecompressFrom(str, i + 1, AddRun(runs, 1, str[i + 1]))

\* lines 239-271
decompressString(str) == DecompressFrom(str, 0, <<>>)

\* One cell of a grid that is just large enough to hold it, or one string.
InitShare ==
    /\ grid = <<>>
    /\ pc = "idle"
    /\ LocalsStart
    /\ finalTASMCode = <<>>
    /\ spriteDB = <<>>
    /\ ip = 0
    /\ cursor = <<0, 0>>
    /\ screen = BlankScreen(grid)
    /\ codec = CodecOff
    /\ calls = NoCalls
    /\ TemplatesLoaded
    /\ editor = EditorOff
    /\ \/ \E r \in ShareCoords, c \in ShareCoords,
             charCode \in ShareBytes, attribute \in ShareBytes :
              share = [pc |-> "cell", row |-> r, col |-> c,
                       gridRows |-> r + 1, gridCols |-> c + 1,
                       cell |-> CellContent(charCode, attribute)]
       \/ \E str \in ShareStrings : share = [pc |-> "string", str |-> str]
    /\ localStorage = StorageOff

ShareStep(after) ==
    /\ share' = after
    /\ UNCHANGED <<grid, pc, genVars, spriteDB, runVars, codec, calls, templates, editor,
                   localStorage>>

\* generateShareURL, lines 165-174, on the one cell
Pack ==
    /\ share.pc = "cell"
    /\ share.cell.charCode # NULL \/ share.cell.attribute # NULL
    /\ ShareStep([share EXCEPT !.pc = "packed"]
                     @@ [packed |-> pack(share.row, share.col, share.cell)])

\* loadFromURL, lines 372-387, on the one packed integer
Unpack ==
    /\ share.pc = "packed"
    /\ ShareStep([share EXCEPT !.pc = "loaded"]
                     @@ [loaded |-> unpack(share.packed, share.gridRows,
                                           share.gridCols)])

\* generateShareURL, line 184
Compress ==
    /\ share.pc = "string"
    /\ ShareStep([share EXCEPT !.pc = "compressed"]
                     @@ [compressed |-> compressString(share.str)])

\* loadFromURL: decompressString on the compressed text
Decompress ==
    /\ share.pc = "compressed"
    /\ ShareStep([share EXCEPT !.pc = "decompressed"]
                     @@ [decompressed |-> decompressString(share.compressed)])

NextShare == Pack \/ Unpack \/ Compress \/ Decompress

SpecShare == InitShare /\ [][NextShare]_vars

-----------------------------------------------------------------------------
(* The persisted grid state (storage/persistence.ts): every handler that    *)
(* changes the grid ends with saveGridState(rows, cols, data), which        *)
(* overwrites the three items of localStorage.                              *)

\* persistence.ts lines 6-14
saveGridState(rows, cols, data) == [rows |-> rows, cols |-> cols, data |-> data]

\* part_002 lines 103-119: where a paste starts and the bounds it keeps to,
\* with the cells selStart .. selEnd selected
pasteBounds(e, selStart, selEnd) ==
    LET multi == selStart[1] # selEnd[1] \/ selStart[2] # selEnd[2]
        Min(a, b) == IF a < b THEN a ELSE b
        Max(a, b) == IF a > b THEN a ELSE b
    IN  [startRow |-> Min(selStart[1], selEnd[1]),
         startCol |-> Min(selStart[2], selEnd[2]),
         maxRows |-> IF multi THEN Max(selStart[1], selEnd[1]) + 1 ELSE e.gridRows,
         maxCols |-> IF multi THEN Max(selStart[2], selEnd[2]) + 1 ELSE e.gridCols]

\* createGrid (canvasGrid.ts lines 425-452) saves the grid it made
InitPersist ==
    /\ grid = <<>>
    /\ pc = "idle"
    /\ LocalsStart
    /\ finalTASMCode = <<>>
    /\ spriteDB = <<>>
    /\ ip = 0
    /\ cursor = <<0, 0>>
    /\ screen = BlankScreen(grid)
    /\ codec = CodecOff
    /\ calls = NoCalls
    /\ TemplatesLoaded
    /\ \E rows \in EditorRows, cols \in EditorCols : editor = createGrid(rows, cols)
    /\ share = ShareOff
    /\ localStorage = saveGridState(editor.gridRows, editor.gridCols, editor.gridData)

\* one handler, named action, taking the editor to after and the storage to saved
Store(action, after, saved) ==
    /\ editor.steps < MaxEdits
    /\ editor' = [after EXCEPT !.steps = editor.steps + 1,
                               !.last = Found(editor, action),
                               !.last2 = editor.last]
    /\ localStorage' = saved
    /\ UNCHANGED <<grid, pc, genVars, spriteDB, runVars, codec, calls, templates, share>>

\* tech.md lines 533-542 and canvasGrid.ts lines 394-397: a colour is selected,
\* so the cell changes and is saved unless the row is missing and line 364 throws
PersistDraw ==
    \E p \in CellsUnderMouse :
        LET after == applyDrawing(saveToHistory(editor), p[1], p[2], "draw")
        IN  Store("draw", after,
                  IF p[1] < Rows(editor.gridData)
                  THEN saveGridState(editor.gridRows, editor.gridCols, after.gridData)
                  ELSE localStorage)

PersistErase ==
    \E p \in CellsUnderMouse :
        LET after == applyDrawing(saveToHistory(editor), p[1], p[2], "erase")
        IN  Store("erase", after,
                  IF p[1] < Rows(editor.gridData)
                  THEN saveGridState(editor.gridRows, editor.gridCols, after.gridData)
                  ELSE localStorage)

\* tech.md lines 273-289
PersistClear ==
    LET after == clearGrid(editor)
    IN  /\ editor.on
        /\ Store("clear", after,
                 saveGridState(editor.gridRows, editor.gridCols, after.gridData))

\* part_002 lines 15-45 with one cell selected; nothing is saved when copyASCII
\* throws
PersistCut ==
    \E p \in CellsUnderMouse :
        LET after == cutSelection(editor, p[1], p[2])
        IN  Store("cut", after,
                  IF p[1] < Rows(editor.gridData)
                  THEN saveGridState(editor.gridRows, editor.gridCols, after.gridData)
                  ELSE localStorage)

\* part_002 lines 95-172 with the cells selStart .. selEnd selected and the
\* one character 'A' on the clipboard; line 167 saves the bounds of the paste
PersistPaste ==
    \E selStart \in CellsUnderMouse, selEnd \in CellsUnderMouse :
        LET b == pasteBounds(editor, selStart, selEnd)
            after == pasteASCII(editor, b.startRow, b.startCol)
        IN  Store("paste", after,
                  IF b.startRow < Rows(editor.gridData)
                  THEN saveGridState(b.maxRows, b.maxCols, after.gridData)
                  ELSE localStorage)

\* tech.md lines 107-133
PersistResize ==
    \E newRows \in EditorRows, newCols \in EditorCols :
        LET after == resizeGrid(editor, newRows, newCols)
        IN  /\ editor.on
            /\ Store("resizeInputs", after,
                     saveGridState(newRows, newCols, after.gridData))

\* canvasGrid.ts lines 137-149
PersistUndo ==
    LET after == undo(editor)
    IN  /\ editor.on
        /\ Store("undo", after,
                 IF Len(editor.undoStack) = 0 THEN localStorage
                 ELSE saveGridState(editor.gridRows, editor.gridCols, after.gridData))

\* canvasGrid.ts lines 154-166
PersistRedo ==
    LET after == redo(editor)
    IN  /\ editor.on
        /\ Store("redo", after,
                 IF Len(editor.redoStack) = 0 THEN localStorage
                 ELSE saveGridState(editor.gridRows, editor.gridCols, after.gridData))

NextPersist ==
    \/ PersistDraw
    \/ PersistErase
    \/ PersistClear
    \/ PersistCut
    \/ PersistPaste
    \/ PersistResize
    \/ PersistUndo
    \/ PersistRedo

SpecPersist == InitPersist /\ [][NextPersist]_vars

-----------------------------------------------------------------------------
(* Flood fill (canvasGrid.ts lines 483-537) on grids of two rows and two    *)
(* columns whose cells were drawn or typed before, with a colour selected   *)
(* or none                                                                  *)

\* an empty slot, a cell drawn black on black, a cell drawn yellow on blue
\* and a character typed on it
FillCells ==
    {NullCell, CellContent(NULL, 0), CellContent(NULL, 30),
     CellContent(TypedCharCode, 30)}

FillGrids == [1..2 -> [1..2 -> FillCells]]

\* the selected background and foreground: both, the foreground only, none
FillPalettes == {<<CurrentBgIndex, CurrentFgIndex>>, <<NULL, CurrentFgIndex>>,
                 <<NULL, NULL>>}

InitFill ==
    /\ grid = <<>>
    /\ pc = "idle"
    /\ LocalsStart
    /\ finalTASMCode = <<>>
    /\ spriteDB = <<>>
    /\ ip = 0
    /\ cursor = <<0, 0>>
    /\ screen = BlankScreen(grid)
    /\ codec = CodecOff
    /\ calls = NoCalls
    /\ TemplatesLoaded
    /\ \E g \in FillGrids, palette \in FillPalettes :
           editor = [createGrid(2, 2) EXCEPT !.gridData = g,
                                             !.bgIndex = palette[1],
                                             !.fgIndex = palette[2]]
    /\ share = ShareOff
    /\ localStorage = StorageOff

\* tech.md lines 533-539: mousedown with the fill tool on the cell (row, col),
\* which the handler is remembered to have found
FloodFill ==
    \E p \in CellsUnderMouse :
        /\ editor.steps < MaxEdits
        /\ editor' = [floodFill(saveToHistory(editor), p[1], p[2])
                          EXCEPT !.steps = editor.steps + 1,
                                 !.last = Found(editor, "fill")
                                              @@ [row |-> p[1], col |-> p[2]],
                                 !.last2 = editor.last]
        /\ UNCHANGED <<grid, pc, genVars, spriteDB, runVars, codec, calls, templates,
                       share, localStorage>>

NextFill == FloodFill \/ Undo \/ Redo

SpecFill == InitFill /\ [][NextFill]_vars

----------------------------------------------------------------------------
(* Claims about the generated program (specification Spec) *)

\* C1: once the generated program has run to its exit, every non-absent cell
\* (r, c) of the grid shows on the screen with exactly its effective character
\* and its effective attribute.
C1_ScreenShowsGrid ==
    pc = "halted" =>
        \A p \in Positions(grid) :
            ~IsAbsent(At(grid, p[1], p[2])) =>
                screen[p] = [char |-> EffChar(At(grid, p[1], p[2])),
                             attribute |-> EffAttr(At(grid, p[1], p[2]))]

\* C2: in every scanned row the columns written by the row's segments are
\* exactly the columns of the non-absent cells, and the segments lie one after
\* the other in increasing column order without overlap.
C2_SegmentsCoverExactlyNonAbsent ==
    \A r \in 0..(Rows(grid) - 1) :
        r < row =>
            /\ UNION {Extent(segments[i]) : i \in SegmentsOfRow(r)}
                   = NonAbsentColumns(grid, r)
            /\ \A i, j \in SegmentsOfRow(r) :
                   i < j => segments[i].start + Width(segments[i]) <= segments[j].start

\* C3: both generators return the same text for every grid that differs from
\* the given one only in null slots versus explicit {null, null} pairs.
C3_EmptyRepresentationsAgree ==
    /\ pc = "returned" => \A h \in Variants(grid) : generateTASMCode(h) = finalTASMCode
    /\ pc = "sprite" => \A h \in Variants(grid) : generateSpriteDB(h, "SPRITE") = spriteDB

\* C8: every non-absent cell the scan has passed was taken by exactly one
\* segment, and that segment carries the cell: a text segment holds the cell's
\* character at the cell's place among its characters, under the cell's
\* effective attribute; a block segment has the cell's effective character and
\* attribute.
Carries(seg, p) ==
    LET cell == At(grid, p[1], p[2])
        k == Cardinality({c \in seg.start..p[2] : ~IsAbsent(At(grid, p[1], c))})
    IN  /\ seg.attribute = EffAttr(cell)
        /\ IF seg.kind = "text"
           THEN k \in DOMAIN seg.chars /\ seg.chars[k] = cell.charCode
           ELSE seg.chars = <<EffChar(cell)>>

C8_ExactlyOneSegment ==
    \A p \in Positions(grid) :
        (Scanned(p) /\ ~IsAbsent(At(grid, p[1], p[2]))) =>
            /\ Cardinality({i \in DOMAIN segments : Covers(segments[i], p)}) = 1
            /\ \A i \in DOMAIN segments :
                   Covers(segments[i], p) => Carries(segments[i], p)

\* a returned scan with a text segment, a block segment and a skipped cell
C8_Witness ==
    /\ pc = "returned"
    /\ \E i, j \in DOMAIN segments :
           segments[i].kind = "text" /\ segments[j].kind = "block"
    /\ \E p \in Positions(grid) : IsAbsent(At(grid, p[1], p[2]))

\* C9: no text segment and no string-table literal holds character 36; a cell
\* holding 36 is never taken by a text segment (it neither starts one nor lets
\* the one to its left run over it) and is taken by a block segment.
C9_NoDollarInText ==
    /\ \A i \in DOMAIN segments :
           segments[i].kind = "text" =>
               \A k \in DOMAIN segments[i].chars : segments[i].chars[k] # 36
    /\ \A i \in DOMAIN string_data_declarations :
           \A k \in DOMAIN string_data_declarations[i].literal :
               string_data_declarations[i].literal[k] # 36
    /\ \A p \in Positions(grid) :
           (Scanned(p) /\ HasChar(At(grid, p[1], p[2]))
                       /\ At(grid, p[1], p[2]).charCode = 36) =>
               /\ \A i \in DOMAIN segments :
                      Covers(segments[i], p) => segments[i].kind = "block"
               /\ \E i \in DOMAIN segments :
                      Covers(segments[i], p) /\ segments[i].chars = <<36>>

\* a text segment that ends where a '$' cell stands, the '$' in a block
C9_Witness ==
    \E i, j \in DOMAIN segments :
        /\ segments[i].kind = "text" /\ segments[j].kind = "block"
        /\ segments[i].row = segments[j].row
        /\ segments[i].end = segments[j].start
        /\ segments[j].chars = <<36>>
        /\ segments[i].attribute = segments[j].attribute

\* the cell at p has a character other than 36 and a successor in its row whose
\* attribute differs
BeforeAttributeChange(p) ==
    /\ HasChar(At(grid, p[1], p[2]))
    /\ At(grid, p[1], p[2]).charCode # 36
    /\ p[2] + 1 < RowLen(grid, p[1])
    /\ ShownAttr(At(grid, p[1], p[2] + 1)) # ShownAttr(At(grid, p[1], p[2]))

\* C10 as claimed: every such cell is taken by a text segment, never by a block
\* segment.
C10_AlwaysText ==
    \A p \in Positions(grid) :
        (Scanned(p) /\ BeforeAttributeChange(p)) =>
            /\ \E i \in DOMAIN segments :
                   Covers(segments[i], p) /\ segments[i].kind = "text"
            /\ \A i \in DOMAIN segments :
                   Covers(segments[i], p) => segments[i].kind = "text"

\* C10 amended: every such cell is taken by a text segment and by no block
\* segment, unless the cell holds a space (0x20) and continues a block run that
\* began to its left at a cell without a character and with the same effective
\* attribute; then the block segment takes it and no text segment does.
C10_TextUnlessSpaceInBlock ==
    \A p \in Positions(grid) :
        (Scanned(p) /\ BeforeAttributeChange(p)) =>
            \E i \in DOMAIN segments :
                /\ Covers(segments[i], p)
                /\ \A j \in DOMAIN segments : Covers(segments[j], p) => j = i
                /\ \/ segments[i].kind = "text"
                   \/ /\ segments[i].kind = "block"
                      /\ At(grid, p[1], p[2]).charCode = 32
                      /\ segments[i].start < p[2]
                      /\ ~HasChar(At(grid, p[1], segments[i].start))
                      /\ segments[i].attribute = EffAttr(At(grid, p[1], p[2]))

\* a one-character text segment whose cell is followed by another attribute
C10_Witness ==
    \E i \in DOMAIN segments :
        /\ segments[i].kind = "text"
        /\ segments[i].end = segments[i].start + 1
        /\ Scanned(<<segments[i].row, segments[i].start>>)
        /\ BeforeAttributeChange(<<segments[i].row, segments[i].start>>)
        /\ HasChar(At(grid, segments[i].row, segments[i].end))

\* the cell under the scan cursor holds a character other than '$'
CursorOnCharacter ==
    IF InColumnLoop
    THEN IF HasChar(At(grid, row, col)) THEN At(grid, row, col).charCode # 36 ELSE FALSE
    ELSE FALSE

\* the step appended a segment of the given kind at the cursor
EmitsAtCursor(kind) ==
    IF Len(segments') = Len(segments) + 1
    THEN /\ segments'[Len(segments')].kind = kind
         /\ segments'[Len(segments')].row = row
         /\ segments'[Len(segments')].start = col
    ELSE FALSE

\* C11: a loop iteration whose cursor rests on a cell holding a character
\* other than 36 emits a text segment that starts at that column with that
\* character, of length one at least; an iteration emits a block segment only
\* when the cell under the cursor has no character or holds 36.
C11_TextAtCharacter ==
    [][IF InColumnLoop
       THEN /\ CursorOnCharacter =>
                  /\ EmitsAtCursor("text")
                  /\ Len(segments'[Len(segments')].chars) >= 1
                  /\ segments'[Len(segments')].chars[1] = At(grid, row, col).charCode
                  /\ string_data_declarations' # string_data_declarations
            /\ EmitsAtCursor("block") => ~CursorOnCharacter
       ELSE TRUE]_vars

\* a one-character text segment directly followed by a block segment of the
\* same attribute: the character was not folded into the block
C11_Witness ==
    \E i, j \in DOMAIN segments :
        /\ j = i + 1
        /\ segments[i].kind = "text" /\ segments[j].kind = "block"
        /\ Len(segments[i].chars) = 1
        /\ segments[i].row = segments[j].row
        /\ segments[i].end = segments[j].start
        /\ segments[i].attribute = segments[j].attribute

\* generateTASMCode is scanning or has just returned.  While the returned
\* program runs, and in the other generator, its locals no longer change,
\* so what holds of them here holds from then on.
GeneratorAtWork == pc \in {"scan", "returned"}

\* the columns of the cells whose characters segment seg holds
CharacterColumns(seg) ==
    {c \in seg.start..(seg.end - 1) : HasChar(At(grid, seg.row, c))}

\* C12: the cells whose characters one text segment holds all have the
\* segment's attribute as their effective attribute (0x07 where none is
\* stored), and two neighbouring character cells of different effective
\* attribute are never taken by the same text segment.
C12_OneAttributePerTextSegment ==
    GeneratorAtWork =>
    /\ \A i \in DOMAIN segments :
           segments[i].kind = "text" =>
               /\ Cardinality(CharacterColumns(segments[i])) = Len(segments[i].chars)
               /\ \A c \in CharacterColumns(segments[i]) :
                      EffAttr(At(grid, segments[i].row, c)) = segments[i].attribute
    /\ \A p \in Positions(grid) :
           (/\ p[2] + 1 < RowLen(grid, p[1])
            /\ HasChar(At(grid, p[1], p[2]))
            /\ HasChar(At(grid, p[1], p[2] + 1))
            /\ ShownAttr(At(grid, p[1], p[2])) # ShownAttr(At(grid, p[1], p[2] + 1)))
           => ~\E i \in DOMAIN segments :
                  /\ segments[i].kind = "text"
                  /\ Covers(segments[i], p)
                  /\ Covers(segments[i], <<p[1], p[2] + 1>>)

\* two neighbouring character cells of different attribute, each taken by a
\* text segment of its own, and a text segment of two characters
C12_Witness ==
    /\ \E i, j \in DOMAIN segments :
           /\ j = i + 1
           /\ segments[i].kind = "text" /\ segments[j].kind = "text"
           /\ segments[i].row = segments[j].row
           /\ segments[i].end = segments[j].start
           /\ segments[i].attribute # segments[j].attribute
    /\ \E i \in DOMAIN segments :
           segments[i].kind = "text" /\ Len(segments[i].chars) = 2

\* the instruction stream cut before every cursor directive: each cursor
\* directive with the directives after it up to the next one
RECURSIVE Group(_, _)
Group(code, groups) ==
    IF code = <<>> THEN groups
    ELSE IF Head(code).op = "setcursor" \/ groups = <<>>
         THEN Group(Tail(code), Append(groups, <<Head(code)>>))
         ELSE Group(Tail(code),
                    [groups EXCEPT ![Len(groups)] = Append(@, Head(code))])

DirectiveGroups == Group(currentMiddleCode, <<>>)

\* what the renderc loop compares: 0x20 and 0x07 stand in for whatever a cell,
\* or a null slot, does not store (lines 158-159)
ShownChar(cell) == IF HasChar(cell) THEN cell.charCode ELSE 32

SameFill(r, c, d) ==
    /\ ShownChar(At(grid, r, c)) = ShownChar(At(grid, r, d))
    /\ ShownAttr(At(grid, r, c)) = ShownAttr(At(grid, r, d))

TextSegmentIndices == {i \in DOMAIN segments : segments[i].kind = "text"}

\* how many text segments were emitted before segment i
TextOrdinal(i) == Cardinality({j \in TextSegmentIndices : j < i})

\* C14: the k-th text segment in scan order (k from 0) has the string-table
\* entry number k, labelled txt_k_R<row>_C<start column>, and its
\* string-output directive names that label; the counters of successive
\* entries strictly increase, across rows too, and no two entries share a
\* label.
C14_LabelsNumberedInScanOrder ==
    GeneratorAtWork =>
    LET groups == DirectiveGroups
    IN
    /\ Len(groups) = Len(segments)
    /\ Len(string_data_declarations) = Cardinality(TextSegmentIndices)
    /\ stringCounter = Len(string_data_declarations)
    /\ \A i \in TextSegmentIndices :
           LET k == TextOrdinal(i)
               entry == string_data_declarations[k + 1]
               d == groups[i]
           IN  /\ NumValue(entry.label.txt) = k
               /\ NumValue(entry.label.R) = segments[i].row
               /\ NumValue(entry.label.C) = segments[i].start
               /\ Unquote(entry.literal) = segments[i].chars
               /\ d[Len(d)] = [op |-> "print", label |-> entry.label]
               /\ Cardinality({j \in DOMAIN d : d[j].op = "print"}) = 1
    /\ \A a, b \in DOMAIN string_data_declarations :
           a < b =>
               /\ string_data_declarations[a].label # string_data_declarations[b].label
               /\ NumValue(string_data_declarations[a].label.txt)
                      < NumValue(string_data_declarations[b].label.txt)

\* two text segments on different rows, the second numbered 1
C14_Witness ==
    /\ pc = "returned"
    /\ Len(string_data_declarations) >= 2
    /\ string_data_declarations[1].label.R # string_data_declarations[2].label.R
    /\ string_data_declarations[2].label.txt = Dec(1)

\* C17: a text segment's directives are its cursor directive, then the
\* colour directive if and only if the segment's effective attribute is not
\* 0x07, carrying that attribute and the number of characters of the string,
\* then the string-output directive; a block segment has no colour directive.
C17_ColorzIffNotDefault ==
    GeneratorAtWork =>
    LET groups == DirectiveGroups
    IN
    /\ Len(groups) = Len(segments)
    /\ \A i \in DOMAIN segments :
           LET seg == segments[i]
               d == groups[i]
           IN  IF seg.kind = "text"
               THEN /\ seg.attribute = EffAttr(At(grid, seg.row, seg.start))
                    /\ d[1].op = "setcursor"
                    /\ d[Len(d)].op = "print"
                    /\ IF seg.attribute # 7
                       THEN /\ Len(d) = 3
                            /\ d[2].op = "colorz"
                            /\ NumValue(d[2].color) = seg.attribute
                            /\ NumValue(d[2].write) = Len(seg.chars)
                       ELSE Len(d) = 2
               ELSE \A k \in DOMAIN d : d[k].op # "colorz"

\* a text segment in attribute 0x1E with its colour directive and a text
\* segment in 0x07 without one
C17_Witness ==
    /\ \E i, j \in TextSegmentIndices :
           segments[i].attribute = 30 /\ segments[j].attribute = 7
    /\ Cardinality({k \in DOMAIN currentMiddleCode :
                        currentMiddleCode[k].op = "colorz"}) = 1

\* the (row, column) parameters of the cursor directives, in stream order
RECURSIVE CursorParameters(_)
CursorParameters(code) ==
    IF code = <<>> THEN <<>>
    ELSE (IF Head(code).op = "setcursor"
          THEN <<<<NumValue(Head(code).row), NumValue(Head(code).col)>>>>
          ELSE <<>>)
         \o CursorParameters(Tail(code))

LexLess(p, q) == p[1] < q[1] \/ (p[1] = q[1] /\ p[2] < q[2])

\* C18: the instruction stream holds one cursor directive per segment, the
\* first directive of the segment; the
\* (row, column) parameters of the cursor directives in stream order are the
\* (row, start column) of the segments in emission order, unscaled, each a
\* position of the grid the scan has passed, and they strictly increase in
\* row-major order.
C18_CursorsInScanOrder ==
    GeneratorAtWork =>
    LET parameters == CursorParameters(currentMiddleCode)
    IN
    /\ parameters
           = [i \in DOMAIN segments |-> <<segments[i].row, segments[i].start>>]
    /\ currentMiddleCode # <<>> => currentMiddleCode[1].op = "setcursor"
    /\ \A i \in DOMAIN segments :
           /\ <<segments[i].row, segments[i].start>> \in Positions(grid)
           /\ Scanned(<<segments[i].row, segments[i].start>>)
           /\ ~IsAbsent(At(grid, segments[i].row, segments[i].start))
    /\ \A i, j \in DOMAIN segments :
           i < j => LexLess(parameters[i], parameters[j])

\* a returned scan with segments on three rows, a text and a block segment
\* among them
C18_Witness ==
    /\ pc = "returned"
    /\ \E i, j, k \in DOMAIN segments :
           /\ segments[i].row < segments[j].row
           /\ segments[j].row < segments[k].row
    /\ \E i, j \in DOMAIN segments :
           segments[i].kind = "text" /\ segments[j].kind = "block"

\* the place of the last piece equal to piece in program, 0 if there is none
LastPlace(program, piece) ==
    LET places == {k \in DOMAIN program : program[k] = piece}
    IN  IF places = {} THEN 0 ELSE CHOOSE k \in places : \A j \in places : j <= k

IsEntry(item) == item.op = "db"
IsNoEntry(item) == item.op # "db"

\* C19: the returned program is the preamble up to and including its last
\* '.data' line, then the string-table entries in emission order, then the
\* rest of the preamble from '.code' on, then the instruction stream, then
\* the postamble: every entry lies after the data marker and before '.code',
\* none after the instructions.
C19_StringTableAfterDataMarker ==
    pc = "returned" =>
        LET dataAt == LastPlace(finalTASMCode, Text(".data\n"))
            codeAt == LastPlace(finalTASMCode, Text(".code\n"))
            n == Len(string_data_declarations)
        IN  /\ dataAt > 0
            /\ codeAt = dataAt + n + 1
            /\ SubSeq(finalTASMCode, 1, dataAt)
                   = SubSeq(startCode, 1, LastPlace(startCode, Text(".data\n")))
            /\ SubSeq(finalTASMCode, dataAt + 1, codeAt - 1) = string_data_declarations
            /\ SubSeq(finalTASMCode, codeAt, Len(finalTASMCode))
                   = SubSeq(startCode, LastPlace(startCode, Text(".code\n")), Len(startCode))
                     \o currentMiddleCode \o endCode
            /\ \A k \in DOMAIN finalTASMCode :
                   IsEntry(finalTASMCode[k]) => dataAt < k /\ k < codeAt
            /\ SelectSeq(finalTASMCode, IsNoEntry)
                   = startCode \o currentMiddleCode \o endCode

\* a returned program with two string-table entries and a fill directive
C19_Witness ==
    /\ pc = "returned"
    /\ Len(SelectSeq(finalTASMCode, IsEntry)) = 2
    /\ \E k \in DOMAIN finalTASMCode : finalTASMCode[k].op = "renderc"

\* how many of the first j - 1 characters are '"'
QuotesBefore(chars, j) == Cardinality({m \in 1..(j - 1) : chars[m] = 34})

\* lit is chars in order with every '"' written twice and every other
\* character once
IsEscaped(lit, chars) ==
    /\ Len(lit) = Len(chars) + QuotesBefore(chars, Len(chars) + 1)
    /\ \A j \in DOMAIN chars :
           /\ lit[j + QuotesBefore(chars, j)] = chars[j]
           /\ chars[j] = 34 => lit[j + QuotesBefore(chars, j) + 1] = 34

\* C20: the string-table entry of every text segment holds the segment's
\* characters in order, each '"' (34) doubled and every other character once
\* and unchanged, and ends with the '$' sentinel.
C20_LiteralDoublesQuotes ==
    GeneratorAtWork =>
    /\ Len(string_data_declarations) = Cardinality(TextSegmentIndices)
    /\ \A i \in TextSegmentIndices :
           LET entry == string_data_declarations[TextOrdinal(i) + 1]
           IN  /\ entry.op = "db"
               /\ IsEscaped(entry.literal, segments[i].chars)
               /\ entry.terminator = 36

\* a text segment of a '"' and another character: a literal of three
C20_Witness ==
    \E i \in TextSegmentIndices :
        /\ Len(segments[i].chars) = 2
        /\ \E j, k \in 1..2 : segments[i].chars[j] = 34 /\ segments[i].chars[k] = 65
        /\ Len(string_data_declarations[TextOrdinal(i) + 1].literal) = 3

\* a generator is about to be called or generateTASMCode is under way
InGeneratorCall == pc \in {"idle", "scan"}

\* C21: no step of a call of generateTASMCode or generateSpriteDB, its return
\* included, changes the grid it was given (shape and every cell) or the
\* preamble and postamble templates.
C21_CallsLeaveGridAndTemplates ==
    [][InGeneratorCall => (grid' = grid /\ templates' = templates)]_vars

\* generateTASMCode has returned a program with a string table for a grid of
\* several cells, the templates still as loaded
C21_Witness ==
    /\ pc = "returned"
    /\ Len(string_data_declarations) >= 1
    /\ Len(segments) >= 2
    /\ Rows(grid) >= 1
    /\ TemplatesLoaded

----------------------------------------------------------------------------
(* Claims about absent attributes (specification SpecAbsent) and about    *)
(* rows of differing lengths (specification SpecJagged)                    *)

\* the cell with its absent attribute written out as 0x07, if it bears a
\* character
ExplicitAttribute(cell) ==
    IF IsNull(cell) THEN cell
    ELSE IF cell.charCode # NULL /\ cell.attribute = NULL
         THEN CellContent(cell.charCode, 7)
         ELSE cell

ExplicitGrid(g) ==
    [r \in DOMAIN g |-> [c \in DOMAIN g[r] |-> ExplicitAttribute(g[r][c])]]

\* C25: writing 0x07 into every character-bearing cell whose attribute is
\* absent changes neither the program generateTASMCode returns nor the
\* segments it groups the cells into.
C25_AbsentAttributeIsSeven ==
    (pc = "returned") =>
        LET h == ExplicitGrid(grid)
        IN  /\ generateTASMCode(h) = finalTASMCode
            /\ ScanFrom(h, InitialLocals).segments = segments

\* a returned call on a row holding a letter, a space and '$', none with an
\* attribute: the letter is printed as text of attribute 7, the space after
\* the colour-only cell extends its block, '$' starts a block of its own
C25_Witness ==
    /\ pc = "returned"
    /\ grid = <<<<CellContent(NULL, 7), CellContent(32, NULL), CellContent(36, NULL)>>>>
    /\ ExplicitGrid(grid) # grid
    /\ Len(segments) = 2
    /\ segments[1].kind = "block" /\ segments[1].end = 2 /\ segments[1].attribute = 7
    /\ segments[2].kind = "block" /\ segments[2].chars = <<36>>

\* C39: generateTASMCode terminates: every iteration of the column loop moves
\* the cursor to the right within its row, an iteration on a cell that is not
\* stepped over emits a segment (the count-is-zero fallback of the renderc
\* path is not taken), and every segment emitted spans at least one column.
C39_EveryIterationAdvances ==
    /\ InColumnLoop =>
           LET next == WhileBody(grid, Locals)
           IN  /\ next.row = row
               /\ next.col > col
               /\ next.col <= RowLen(grid, row)
               /\ ~IsSkipped(At(grid, row, col)) =>
                      Len(next.segments) = Len(segments) + 1
    /\ \A k \in DOMAIN segments : segments[k].end > segments[k].start

\* a call has returned after a text segment, a renderc segment and a cell
\* stepped over
C39_Witness ==
    /\ pc = "returned"
    /\ \E k \in DOMAIN segments : segments[k].kind = "text"
    /\ \E k \in DOMAIN segments : segments[k].kind = "block"
    /\ \E p \in Positions(grid) : IsSkipped(At(grid, p[1], p[2]))

\* every row of the grid has the length of the first
Rectangular(g) == \A r \in 0..(Rows(g) - 1) : RowLen(g, r) = RowLen(g, 0)

\* C26: no segment is grouped, and no program returned, from rows of
\* differing lengths: by the time the column loop has produced anything the
\* grid it reads is rectangular (normalized), or the call has been rejected
\* and produces nothing.
C26_JaggedNeverGrouped ==
    (segments # <<>> \/ finalTASMCode # <<>>) => Rectangular(grid)

----------------------------------------------------------------------------
(* Claims about repeated calls (specification SpecRepeat) *)

\* a call made after an earlier one has returned: the earlier text is still
\* held by the caller
LaterCall == pc = "scan" /\ finalTASMCode # <<>>

\* C15: every call of generateTASMCode on the unchanged grid after the first
\* returns the very text the call before it returned, and starts with the
\* label counter, string table and instruction stream empty.
C15_RepeatedCallsAgree ==
    [][/\ (LaterCall /\ pc' = "returned") => finalTASMCode' = finalTASMCode
       /\ (pc = "returned" /\ pc' = "scan") =>
              /\ stringCounter' = 0
              /\ string_data_declarations' = <<>>
              /\ currentMiddleCode' = <<>>
              /\ grid' = grid]_vars

\* a later call that has scanned the whole grid, giving out two labels, and
\* is about to return
C15_Witness ==
    /\ LaterCall
    /\ row >= Rows(grid)
    /\ stringCounter >= 2
    /\ Len(currentMiddleCode) >= 4

----------------------------------------------------------------------------
(* Claims about interleaved calls (specification SpecPair) *)

\* the labels of a string table, in order
LabelsOf(decls) == [k \in DOMAIN decls |-> decls[k].label]

\* what call i has when it runs alone on its snapshot
Alone(i) == ScanFrom(calls[i].gridData, InitialLocals)

\* C16: however the iterations of two calls are interleaved, each call's
\* label counter counts its own string-table entries only, and what it
\* returns, labels and program text, is what it produces when run alone on
\* its snapshot.
C16_InterleavedCallsIndependent ==
    \A i \in Invocations :
        /\ calls[i].st.stringCounter = Len(calls[i].st.string_data_declarations)
        /\ calls[i].pc = "returned" =>
               /\ LabelsOf(calls[i].st.string_data_declarations)
                      = LabelsOf(Alone(i).string_data_declarations)
               /\ calls[i].st.currentMiddleCode = Alone(i).currentMiddleCode
               /\ calls[i].finalTASMCode = generateTASMCode(calls[i].gridData)

\* both calls have returned, each with labels of its own, on different
\* snapshots
C16_Witness ==
    /\ \A i \in Invocations :
           calls[i].pc = "returned" /\ calls[i].st.stringCounter >= 1
    /\ calls[1].gridData # calls[2].gridData
    /\ calls[1].finalTASMCode # calls[2].finalTASMCode

----------------------------------------------------------------------------
(* Claims about the sprite table (specification SpecSprite) *)

\* generateSpriteDB has returned
SpriteReturned == pc \in {"sprite", "sprite5"}

\* the label the caller gave (the default of line 19 when none)
SuppliedLabel == IF pc = "sprite5" THEN "SPRITE_5" ELSE "SPRITE"

\* a text cut at its newline characters: what stands before the first, between
\* two neighbours, and after the last
RECURSIVE SplitLines(_, _)
SplitLines(text, lines) ==
    IF text = <<>> THEN lines
    ELSE IF Head(text) = "\n"
         THEN SplitLines(Tail(text), Append(lines, <<>>))
         ELSE SplitLines(Tail(text),
                         [lines EXCEPT ![Len(lines)] = Append(@, Head(text))])

SpriteLines == SplitLines(spriteDB, <<<<>>>>)

\* what stands between the first and the last quote of a line
Literal(line) ==
    LET quotes == {k \in DOMAIN line : line[k] = "'"}
        open == CHOOSE k \in quotes : \A j \in quotes : k <= j
        close == CHOOSE k \in quotes : \A j \in quotes : j <= k
    IN  SubSeq(line, open + 1, close - 1)

\* the letter the claim gives a cell
ClaimedLetter(cell) ==
    IF IsNull(cell) THEN "."
    ELSE IF cell.attribute = NULL THEN "."
         ELSE <<"K", "B", "G", "C", "R", "M", "Y", "W">>[
                  BitAnd(Shr(cell.attribute, 4), 7) + 1]

\* C22: the literal of row r holds, before its terminator, exactly one letter
\* per cell of the row: the letter of K,B,G,C,R,M,Y,W at index (a >> 4) & 7
\* for a cell with attribute a, '.' for a null slot or a cell without
\* attribute; '?' is never among them.
C22_OneLetterPerCell ==
    SpriteReturned =>
        LET lines == SpriteLines
        IN  /\ Len(lines) >= Rows(grid)
            /\ \A r \in 0..(Rows(grid) - 1) :
                   LET literal == Literal(lines[r + 1])
                   IN  /\ Len(literal) = RowLen(grid, r) + 1
                       /\ \A c \in 0..(RowLen(grid, r) - 1) :
                              /\ literal[c + 1] = ClaimedLetter(At(grid, r, c))
                              /\ literal[c + 1] # "?"

\* a returned table for a row of a null slot, a blinking white background and
\* a cell without attribute
C22_Witness ==
    /\ SpriteReturned
    /\ Rows(grid) = 1
    /\ grid[1] = <<NullCell, CellContent(NULL, 240), CellContent(65, NULL)>>
    /\ Literal(SpriteLines[1]) = <<".", "W", ".", "$">>

\* C23: the literal of every row but the last ends with '|' and that of the
\* last row with '$'; the line of the first row begins with the label the
\* caller gave, and no later line holds the label: each is a continuation
\* line that begins with tabs.
C23_TerminatorsAndLabel ==
    SpriteReturned =>
        LET lines == SpriteLines
        IN  /\ Len(lines) >= Rows(grid)
            /\ \A r \in 0..(Rows(grid) - 1) :
                   LET line == lines[r + 1]
                       literal == Literal(line)
                   IN  /\ literal # <<>>
                       /\ literal[Len(literal)]
                              = (IF r = Rows(grid) - 1 THEN "$" ELSE "|")
                       /\ \A k \in 1..(Len(literal) - 1) : literal[k] \notin {"$", "|"}
                       /\ IF r = 0
                          THEN line[1] = SuppliedLabel
                          ELSE /\ line[1] = "\t"
                               /\ \A k \in DOMAIN line : line[k] # SuppliedLabel

\* a table of three rows under the caller's label
C23_Witness ==
    /\ pc = "sprite5"
    /\ Rows(grid) = 3
    /\ SpriteLines[1][1] = "SPRITE_5"
    /\ Literal(SpriteLines[2]) = <<"K", "|">>

\* a line of the table: a DB directive with its quoted literal
IsRowLine(line) ==
    /\ \E k \in DOMAIN line : line[k] = "DB "
    /\ Cardinality({k \in DOMAIN line : line[k] = "'"}) = 2
    /\ line[Len(line)] = "'"

----------------------------------------------------------------------------
(* Claims about the editor and its history (specifications SpecEditor and  *)
(* SpecHistory)                                                            *)

\* the handlers that change what the grid holds
ContentActions ==
    {"draw", "erase", "blink", "fill", "clear", "cut", "paste", "type",
     "backspace", "delete", "resizeInputs", "resizeHandle"}

\* C27: after any sequence of editor operations the grid held in state has
\* exactly getGridRows() rows, each of exactly getGridCols() entries; undo
\* and redo install no grid of another shape.
C27_GridHasTheDimensions ==
    /\ Rows(editor.gridData) = editor.gridRows
    /\ \A r \in 0..(Rows(editor.gridData) - 1) : RowLen(editor.gridData, r) = editor.gridCols

\* C28: a handler that changed the grid has put the grid it found on top of
\* the undo stack, and an undo issued right after such a handler leaves the
\* grid as that handler found it.
C28_ChangeIsUndoable ==
    /\ (editor.last.action \in ContentActions /\ editor.gridData # editor.last.gridData)
           => /\ editor.undoStack # <<>>
              /\ editor.undoStack[Len(editor.undoStack)] = editor.last.gridData
    /\ (/\ editor.last.action = "undo"
        /\ editor.last2.action \in ContentActions
        /\ editor.last.gridData # editor.last2.gridData)
           => editor.gridData = editor.last2.gridData

\* the grid and the two stacks now, and as a handler found them
HistoryNow == <<editor.gridData, editor.undoStack, editor.redoStack>>
HistoryFound(found) == <<found.gridData, found.undoStack, found.redoStack>>

\* C29: a redo issued right after an undo that found a non-empty undo stack
\* leaves the grid, the undo stack and the redo stack as that undo found
\* them; an undo that finds the undo stack empty, and a redo that finds the
\* redo stack empty, leave all three as they were.
C29_UndoThenRedo ==
    /\ (/\ editor.last.action = "redo"
        /\ editor.last2.action = "undo"
        /\ editor.last2.undoStack # <<>>)
           => HistoryNow = HistoryFound(editor.last2)
    /\ (editor.last.action = "undo" /\ editor.last.undoStack = <<>>)
           => HistoryNow = HistoryFound(editor.last)
    /\ (editor.last.action = "redo" /\ editor.last.redoStack = <<>>)
           => HistoryNow = HistoryFound(editor.last)

\* a cell drawn, then undo and redo: the drawn grid is back, the grid it was
\* drawn on is the one entry of the undo stack again, the redo stack is empty
C29_Witness ==
    /\ editor.last.action = "redo"
    /\ editor.last2.action = "undo"
    /\ Len(editor.undoStack) = 1
    /\ editor.redoStack = <<>>
    /\ editor.gridData # editor.undoStack[1]
    /\ editor.gridData # editor.last.gridData

\* C30: the undo stack never holds more than MAX_HISTORY grids; a handler
\* that saved the history has pushed the grid it found, has dropped the
\* oldest entry if the stack was full, and has emptied the redo stack.
C30_HistoryIsBounded ==
    /\ Len(editor.undoStack) <= MAX_HISTORY
    /\ editor.last.action \in {"draw", "erase"} =>
           /\ editor.redoStack = <<>>
           /\ editor.undoStack =
                  Append(IF Len(editor.last.undoStack) = MAX_HISTORY
                         THEN Tail(editor.last.undoStack)
                         ELSE editor.last.undoStack,
                         editor.last.gridData)

\* a save that found the undo stack full: its oldest entry is gone and the
\* stack is full again
C30_Witness ==
    /\ editor.last.action \in {"draw", "erase"}
    /\ Len(editor.last.undoStack) = MAX_HISTORY
    /\ Len(editor.undoStack) = MAX_HISTORY
    /\ editor.undoStack[1] # editor.last.undoStack[1]
    /\ editor.redoStack = <<>>

\* C31: a blink toggle of a cell that has an attribute changes nothing of
\* the cell but bit 7 of the attribute: the character code and the low seven
\* bits (background and foreground index) are as the handler found them, and
\* bit 7 is the opposite.
C31_BlinkFlipsBit7Only ==
    editor.last.action = "blink" =>
        \A p \in Positions(editor.last.gridData) :
            LET old == Slot(editor.last.gridData, p[1], p[2])
                new == Slot(editor.gridData, p[1], p[2])
            IN  IF IsNull(old) THEN TRUE
                ELSE IF old.attribute = NULL THEN TRUE
                ELSE IF IsNull(new) THEN FALSE
                ELSE IF new = old THEN TRUE
                ELSE /\ new.charCode = old.charCode
                     /\ new.attribute # NULL
                     /\ BitAnd(new.attribute, 127) = BitAnd(old.attribute, 127)
                     /\ BitAnd(new.attribute, BLINK_MASK) # BitAnd(old.attribute, BLINK_MASK)

\* C32: a character typed or pasted is stored with an attribute whose
\* background and foreground indices are the selected palette indices,
\* whichever they are; 0 and 7 stand in only for no selection.
C32_TypedInSelectedColours ==
    editor.last.action \in {"type", "paste"} =>
        LET cell == Slot(editor.gridData, 0, 0)
        IN  IF IsNull(cell) THEN FALSE
            ELSE /\ cell.charCode = TypedCharCode
                 /\ cell.attribute # NULL
                 /\ DecodeBgIndex(cell.attribute) = Nullish(editor.bgIndex, 0)
                 /\ DecodeFgIndex(cell.attribute) = Nullish(editor.fgIndex, 7)

\* the modes that are active
ActiveModes ==
    {m \in {"draw", "erase", "text", "fill", "select", "pan"} :
        \/ (m = "draw" /\ editor.isDrawing)
        \/ (m = "erase" /\ editor.isErasing)
        \/ (m = "text" /\ editor.isTextMode)
        \/ (m = "fill" /\ editor.isFilling)
        \/ (m = "select" /\ editor.isSelecting)
        \/ (m = "pan" /\ editor.isPanning)}

\* C33: whatever tool buttons were clicked, at most one of the modes draw,
\* erase, text, fill, select and pan is active.
C33_AtMostOneMode == Cardinality(ActiveModes) <= 1

\* C34: the active cell of the text mode, if there is one, lies inside the
\* grid dimensions.
C34_ActiveCellInsideGrid ==
    HasActiveCell(editor) =>
        /\ editor.activeRow < editor.gridRows
        /\ editor.activeCol < editor.gridCols

-----------------------------------------------------------------------------
(* Claims about the share link (specification SpecShare) *)

\* C35: packing a non-empty cell into a share integer and unpacking it is a
\* round trip: the loaded cell sits at the same row and column and has the
\* same char code and the same attribute.
C35_PackUnpackRoundTrip ==
    share.pc = "loaded" =>
        /\ share.loaded.placed
        /\ share.loaded.row = share.row
        /\ share.loaded.col = share.col
        /\ share.loaded.cell = share.cell

\* C36: decompressString(compressString(s)) = s for every string s.
C36_CompressRoundTrip ==
    share.pc = "decompressed" => share.decompressed = Returned(RunsOf(share.str))

-----------------------------------------------------------------------------
(* Claims about the persisted grid state (specification SpecPersist) *)

\* C37: the rows and cols saveGridState persisted are the dimensions of the
\* data persisted with them: its number of rows and the length of each row.
C37_SavedDimensionsMatch ==
    /\ localStorage.rows = Len(localStorage.data)
    /\ \A i \in DOMAIN localStorage.data :
           localStorage.cols = Len(localStorage.data[i])

-----------------------------------------------------------------------------
(* Claims about flood fill (specification SpecFill) *)

\* what two cells must agree on to belong to one region: being empty, or the
\* background colour, the foreground colour and the character
RegionKey(cell) ==
    IF IsNull(cell)
    THEN [empty |-> TRUE, bg |-> NoColor, fg |-> NoColor, char |-> NULL]
    ELSE IF cell.charCode = NULL /\ cell.attribute = NULL
    THEN [empty |-> TRUE, bg |-> NoColor, fg |-> NoColor, char |-> NULL]
    ELSE [empty |-> FALSE,
          bg |-> IF cell.attribute = NULL THEN NoColor
                 ELSE decodeCellData(cell.attribute).backgroundColor,
          fg |-> IF cell.attribute = NULL THEN NoColor
                 ELSE decodeCellData(cell.attribute).foregroundColor,
          char |-> cell.charCode]

Adjacent(p, q) ==
    \/ p[1] = q[1] /\ (p[2] = q[2] + 1 \/ q[2] = p[2] + 1)
    \/ p[2] = q[2] /\ (p[1] = q[1] + 1 \/ q[1] = p[1] + 1)

\* the 4-connected component of start among the cells with start's key
RECURSIVE Grow(_, _, _)
Grow(g, key, region) ==
    LET more == {q \in Positions(g) :
                    /\ RegionKey(Slot(g, q[1], q[2])) = key
                    /\ \E p \in region : Adjacent(p, q)}
    IN  IF more \subseteq region THEN region ELSE Grow(g, key, region \cup more)

Component(g, start) == Grow(g, RegionKey(Slot(g, start[1], start[2])), {start})

CharCodeOf(cell) == IF IsNull(cell) THEN NULL ELSE cell.charCode

\* C38: flood fill from a start cell sets the attribute of exactly the cells
\* of the start cell's 4-connected component of equal colours and character
\* (an empty cell matching only empty cells), changes no char code and leaves
\* every cell outside the component as it was.
C38_FillPaintsTheComponent ==
    editor.last.action = "fill" =>
        LET old == editor.last.gridData
            region == Component(old, <<editor.last.row, editor.last.col>>)
            newAttribute == encodeCellData([bgIndex |-> Nullish(editor.bgIndex, 0),
                                            fgIndex |-> Nullish(editor.fgIndex, 7),
                                            isBlinking |-> editor.isBlinkEnabled])
        IN  \A p \in Positions(old) :
                LET was == Slot(old, p[1], p[2])
                    now == Slot(editor.gridData, p[1], p[2])
                IN  /\ CharCodeOf(now) = CharCodeOf(was)
                    /\ IF p \in region
                       THEN IF IsNull(now) THEN FALSE ELSE now.attribute = newAttribute
                       ELSE now = was

----------------------------------------------------------------------------
(* Claims about the codec (specification SpecCodec) *)

\* C4: decoding the byte encoded from (bgIndex, fgIndex, isBlinking) gives the
\* same blink flag and the palette entries at bgIndex and fgIndex, from which
\* the editor's indexOf recovers the three fields.
C4_DecodeOfEncode ==
    codec.pc = "drawn" =>
        /\ codec.decoded.isBlinking = codec.args.isBlinking
        /\ codec.decoded.backgroundColor = BACKGROUND_PALETTE[codec.args.bgIndex + 1]
        /\ codec.decoded.foregroundColor = FOREGROUND_PALETTE[codec.args.fgIndex + 1]
        /\ IndicesOf(codec.decoded) = codec.args

C4_Witness ==
    /\ codec.pc = "drawn"
    /\ codec.args = [bgIndex |-> 5, fgIndex |-> 13, isBlinking |-> TRUE]
    /\ codec.decoded.foregroundColor = "#F5A"

\* C5: re-encoding the blink flag, background index and foreground index
\* decoded from a byte returns the byte.
C5_EncodeOfDecode ==
    codec.pc = "decoded" => encodeCellData(IndicesOf(codec.decoded)) = codec.value

C5_Witness ==
    /\ codec.pc = "decoded"
    /\ codec.value = 158
    /\ codec.decoded.isBlinking

\* C6: for every byte the background index decodeCellData computes is in 0..7
\* and the foreground index in 0..15, and both palette reads yield an entry.
C6_DecodeTotal ==
    codec.pc \in {"decoded", "drawn"} =>
        /\ DecodeBgIndex(codec.value) \in 0..7
        /\ DecodeFgIndex(codec.value) \in 0..15
        /\ codec.decoded.backgroundColor # NoColor
        /\ codec.decoded.foregroundColor # NoColor

C6_Witness ==
    /\ codec.pc = "decoded"
    /\ codec.value = 255
    /\ codec.decoded.backgroundColor = "#AAA"
    /\ codec.decoded.foregroundColor = "#FFF"

\* C7: the encoded byte is (blink ? 0x80 : 0) | (bgIndex << 4) | fgIndex: blink
\* in bit 7, the background index in bits 6-4, the foreground index in bits
\* 3-0, the three fields disjoint.
C7_EncodeLayout ==
    codec.pc = "encoded" =>
        LET a == codec.args
            blink == IF a.isBlinking THEN 128 ELSE 0
        IN  /\ codec.value = BitOr(BitOr(blink, Shl(a.bgIndex, 4)), a.fgIndex)
            /\ codec.value = blink + 16 * a.bgIndex + a.fgIndex
            /\ BitAnd(codec.value, 128) = blink
            /\ Shr(BitAnd(codec.value, 112), 4) = a.bgIndex
            /\ BitAnd(codec.value, 15) = a.fgIndex

C7_Witness ==
    /\ codec.pc = "encoded"
    /\ codec.args = [bgIndex |-> 7, fgIndex |-> 15, isBlinking |-> TRUE]
    /\ codec.value = 255

====
